---- MODULE Spec2Model ----
(***************************************************************************)
(* A model of the story generation pipeline of daig/hypeloop:              *)
(*   story_generator.py  generate_story (the LangGraph entrypoint and its  *)
(*                       tasks),                                           *)
(*   generate_story.py   async_main, process_keyframe, the image retry     *)
(*                       controller, the motion/static video controller,   *)
(*   leonardo_api.py     the submit calls and the blocking status pollers. *)
(* Remote services (chat completion, text to speech, the image service,    *)
(* asset downloads, ffmpeg) are the environment: every call draws its      *)
(* outcome from the set of outcomes the call can have.                     *)
(* Time is counted in seconds and advances in steps of the poller's sleep  *)
(* interval, while some poller sleeps.                                     *)
(***************************************************************************)
EXTENDS Integers, Sequences, FiniteSets, TLC

\* ------------------------------------------------------------------ bounds
MaxKeyframes == 2
MaxScenes == 2
LongHorizon == 310
MaxPending == 3
ShortHorizon == 5
MaxIndex == 11
MaxText == 2

\* ------------------------------------------------------- program constants
max_poll_time == 300
PollSleep == 5
max_retries == 2
GroupSize == 2

KF == 1..MaxKeyframes
SC == 1..MaxScenes
MaxFlat == MaxKeyframes * MaxScenes

VARIABLES
    args,            \* the command line flags: images, motion, static_vid, voiceover
    apiKey,          \* LEONARDO_API_KEY is set in the environment
    amPc,            \* position of async_main
    gsPc,            \* position of the generate_story entrypoint
    task,            \* state of the five stage tasks
    nKeyframes,      \* len(keyframes), set by extract_keyframes
    sceneTask,       \* state of generate_keyframe_scenes per keyframe
    nScenes,         \* len(all_scenes[k].scenes)
    leonardo_prompt, \* scene.leonardo_prompt per (keyframe, scene)
    gsTts,           \* state of the generate_voiceover tasks by flat scene index
    characters,      \* the names of the characters extract_characters returned
    visual_style,    \* results['visual_style'], "-" before
    speaker,         \* scene.character.name per (keyframe, scene), "-" before
    previously_seen_characters, \* the set the scene tasks share
    seenLoop,        \* per scene task: the names its loop adds, how many it
                     \* has added
    styleIds,        \* the styleUUID of every image job submitted so far
    story,           \* story_results as returned by generate_story
    amTts,           \* async_main's voiceover pass: next call, any failure
    pkPc,            \* position of process_keyframe per story entry
    imgScene,        \* scene whose image task process_keyframe is awaiting
    imgAttempt,      \* attempt number of the running attempt_generation
    imgPrompt,       \* prompt given to the running attempt_generation
    imgPhase,        \* position inside attempt_generation
    imgStart,        \* start_time of the image wait
    imgJobs,         \* the submits of the running generate_image_for_keyframe:
                     \* the attempt that made each; a job's id is its index
    imgJob,          \* generation_id of the running attempt_generation, 0
                     \* when it holds none
    imgPolls,        \* the status fetches of the running
                     \* generate_image_for_keyframe: <<attempt, job id>>
    imgResult,       \* image_results per (keyframe, scene)
    attempts,        \* number of attempt_generation calls per (keyframe, scene)
    vid,             \* position/outcome of the video task per (keyframe, scene)
    vidStart,        \* start_time of the motion wait
    motionSubmits,   \* what each generate_motion call of a scene returned
    staticCalls,     \* the image path of each generate_static_video_from_image
                     \* call of a scene
    files,           \* the files written so far
    now,             \* time.time()
    job,             \* one remote job followed on its own: submit, wait, download
    dialog           \* one dialog file followed on its own: written, read back

vars == <<args, apiKey, amPc, gsPc, task, nKeyframes, sceneTask, nScenes,
          leonardo_prompt, gsTts, characters, visual_style, speaker,
          previously_seen_characters, seenLoop, story, amTts, pkPc, imgScene,
          imgAttempt, imgPrompt, imgPhase, imgStart, imgResult, attempts, vid,
          vidStart, motionSubmits, staticCalls, styleIds, files, now, job,
          dialog, imgJobs, imgJob, imgPolls>>

castVars == <<characters, visual_style, speaker, previously_seen_characters,
              seenLoop, dialog>>

pipeVars == <<task, nKeyframes, sceneTask, nScenes, leonardo_prompt, gsTts>>
jobVars == <<imgJobs, imgJob, imgPolls>>

unitVars == <<pkPc, imgScene, imgAttempt, imgPrompt, imgPhase, imgStart,
              imgResult, attempts, vid, vidStart, motionSubmits, staticCalls,
              styleIds, files, imgJobs, imgJob, imgPolls>>

Stages == {"script", "characters", "enhance", "keyframes", "style"}

\* ----------------------------------------------------------------- helpers
\* all_scenes flattened keyframe-major, as the comprehensions
\* "for keyframe_scenes in all_scenes for scene in keyframe_scenes.scenes" do.
RECURSIVE FlatUpTo(_, _)
FlatUpTo(ns, k) ==
    IF k = 0 THEN <<>>
    ELSE FlatUpTo(ns, k - 1) \o [s \in 1..ns[k] |-> <<k, s>>]

Flat == FlatUpTo(nScenes, nKeyframes)

\* seq[a:b] of Python (0-based, end exclusive, clipped)
Slice(seq, a, b) ==
    LET hi == IF b < Len(seq) THEN b ELSE Len(seq)
    IN  IF a >= hi THEN <<>> ELSE SubSeq(seq, a + 1, hi)

Min(a, b) == IF a < b THEN a ELSE b

\* Optional[str] = None: the value of a prompt that was never assigned
None == <<>>

should_generate_images == args.images
should_generate_voiceover == args.voiceover

InitPipeline ==
    /\ args \in [images : BOOLEAN, motion : BOOLEAN, static_vid : BOOLEAN,
                 voiceover : BOOLEAN]
    /\ apiKey \in BOOLEAN
    /\ amPc = "start"
    /\ gsPc = "idle"
    /\ task = [t \in Stages |-> "idle"]
    /\ nKeyframes = 0
    /\ sceneTask = [k \in KF |-> "idle"]
    /\ nScenes = [k \in KF |-> 0]
    /\ leonardo_prompt = [k \in KF |-> [s \in SC |-> None]]
    /\ gsTts = [i \in 1..MaxFlat |-> "idle"]
    /\ characters = {}
    /\ visual_style = "-"
    /\ speaker = [k \in KF |-> [s \in SC |-> "-"]]
    /\ previously_seen_characters = {}
    /\ seenLoop = [k \in KF |-> [names |-> <<>>, i |-> 0]]
    /\ styleIds = {}
    /\ story = <<>>
    /\ amTts = [next |-> 0, failed |-> FALSE]
    /\ pkPc = [k \in KF |-> "idle"]
    /\ imgScene = [k \in KF |-> 0]
    /\ imgAttempt = [k \in KF |-> 0]
    /\ imgPrompt = [k \in KF |-> None]
    /\ imgPhase = [k \in KF |-> "idle"]
    /\ imgStart = [k \in KF |-> 0]
    /\ imgJobs = [k \in KF |-> <<>>]
    /\ imgJob = [k \in KF |-> 0]
    /\ imgPolls = [k \in KF |-> {}]
    /\ imgResult = [k \in KF |-> [s \in SC |-> "pending"]]
    /\ attempts = [k \in KF |-> [s \in SC |-> 0]]
    /\ vid = [k \in KF |-> [s \in SC |-> "none"]]
    /\ vidStart = [k \in KF |-> [s \in SC |-> 0]]
    /\ motionSubmits = [k \in KF |-> [s \in SC |-> <<>>]]
    /\ staticCalls = [k \in KF |-> [s \in SC |-> <<>>]]
    /\ files = {}
    /\ now = 0

\* no job is followed on its own in a run of the pipeline
NoJob == [pc |-> "none"]

\* nor is a dialog file
NoDialog == [pc |-> "none"]

Init == InitPipeline /\ job = NoJob /\ dialog = NoDialog

\* --------------------------------------------- optimize_leonardo_prompts
\* A line of the optimizer's response: num is the number n of a leading "n:"
\* (0 when the line has no such prefix), text identifies the rest of the line
\* (0 when the rest is empty).  A prompt is the sequence of the pieces joined
\* by "\n"; a piece <<0, t>> is the stripped rest of a matched line or an
\* unnumbered line, a piece <<n, t>> is an unmatched line kept with its prefix.
BlankLine(line) == line.num = 0 /\ line.text = 0

RECURSIVE ParseFrom(_, _, _, _, _)
ParseFrom(lines, i, optimized_prompts, current_prompt, current_number) ==
    IF i > Len(lines)
    THEN IF current_prompt # <<>>
         THEN Append(optimized_prompts, current_prompt)
         ELSE optimized_prompts
    ELSE LET line == lines[i] IN
         IF BlankLine(line)
         THEN ParseFrom(lines, i + 1, optimized_prompts, current_prompt,
                        current_number)
         ELSE IF line.num = current_number
         THEN ParseFrom(lines, i + 1,
                        IF current_prompt # <<>>
                        THEN Append(optimized_prompts, current_prompt)
                        ELSE optimized_prompts,
                        << <<0, line.text>> >>, current_number + 1)
         ELSE ParseFrom(lines, i + 1, optimized_prompts,
                        Append(current_prompt, <<line.num, line.text>>),
                        current_number)

ParsePrompts(lines) == ParseFrom(lines, 1, <<>>, <<>>, 1)

\* The responses the optimizer is given in the runs: one segment per scene,
\* one segment short and, where e.blank, one segment per scene of which the
\* first has nothing after its "1:"; where e.disorder, the segments of two
\* scenes with line "2:" before line "1:", and with "3:" in place of "2:";
\* where e.preamble, one segment per scene after a line of introduction
\* (text 9) that carries no number.
OptimizerResponses(T, e) ==
    { [j \in 1..T |-> [num |-> j, text |-> j]],
      [j \in 1..(IF T > 0 THEN T - 1 ELSE 0) |-> [num |-> j, text |-> j]] }
    \cup (IF e.blank
          THEN {[j \in 1..T |-> [num |-> j, text |-> IF j = 1 THEN 0 ELSE j]]}
          ELSE {})
    \cup (IF e.disorder
          THEN {<<[num |-> 2, text |-> 2], [num |-> 1, text |-> 1]>>,
                <<[num |-> 1, text |-> 1], [num |-> 3, text |-> 3]>>}
          ELSE {})
    \cup (IF e.preamble
          THEN {<<[num |-> 0, text |-> 9]>>
                   \o [j \in 1..T |-> [num |-> j, text |-> j]]}
          ELSE {})

\* A faulty variant: the last scene of the story is left without its prompt.
AssignPromptsButLast(prompts) ==
    [k \in KF |-> [s \in SC |->
        IF \E i \in 1..(Len(Flat) - 1) : Flat[i] = <<k, s>>
        THEN prompts[CHOOSE i \in 1..Len(Flat) : Flat[i] = <<k, s>>]
        ELSE leonardo_prompt[k][s]]]

\* scene.leonardo_prompt = optimized_prompts[prompt_idx] over the flattened
\* scenes; defined when there are at least as many prompts as scenes.
AssignPrompts(prompts) ==
    [k \in KF |-> [s \in SC |->
        IF \E i \in 1..Len(Flat) : Flat[i] = <<k, s>>
        THEN prompts[CHOOSE i \in 1..Len(Flat) : Flat[i] = <<k, s>>]
        ELSE leonardo_prompt[k][s]]]

\* ------------------------------------------------ generate_story (entrypoint)
\* A faulty variant: the exception of a stage is swallowed and async_main
\* returns as it does for an empty result.
RaiseSwallowed ==
    /\ gsPc' = "raised"
    /\ amPc' = "returned"

\* an exception leaves generate_story, generate_story.invoke and async_main
Raise ==
    /\ gsPc' = "raised"
    /\ amPc' = "crashed"

\* voiceovers[i:i+2] for i in range(0, len(voiceovers), 2), or [None] * N
GroupVoiceovers(enabled) ==
    IF enabled
    THEN [g \in 1..((Len(Flat) + GroupSize - 1) \div GroupSize) |->
            [on |-> TRUE,
             items |-> Slice(Flat, GroupSize * (g - 1), GroupSize * g)]]
    ELSE [k \in 1..nKeyframes |-> [on |-> FALSE, items |-> <<>>]]

\* zip(all_scenes, voiceovers) stops at the shorter of the two
StoryResults(voiceovers) ==
    [i \in 1..Min(nKeyframes, Len(voiceovers)) |->
        [kf |-> i, style |-> visual_style, audio |-> voiceovers[i]]]

\* story_results = [(scenes.scenes[0].description, ...)]: IndexError on a
\* keyframe without scenes; otherwise generate_story returns.
Combine ==
    LET results == StoryResults(GroupVoiceovers(should_generate_voiceover)) IN
    IF \E i \in 1..Len(results) : nScenes[results[i].kf] = 0
    THEN Raise /\ UNCHANGED story
    ELSE /\ story' = results
         /\ gsPc' = "returned"
         /\ amPc' = "post"

LaunchVoiceovers ==
    IF should_generate_voiceover /\ Len(Flat) > 0
    THEN /\ gsTts' = [i \in 1..MaxFlat |->
                        IF i <= Len(Flat) THEN "running" ELSE "idle"]
         /\ gsPc' = "voiceover"
         /\ UNCHANGED <<amPc, story>>
    ELSE /\ Combine
         /\ UNCHANGED gsTts

AmStart ==
    /\ amPc = "start"
    /\ IF args.images /\ ~apiKey
       THEN amPc' = "returned" /\ UNCHANGED <<gsPc, task>>
       ELSE /\ amPc' = "invoke"
            /\ gsPc' = "script"
            /\ task' = [task EXCEPT !["script"] = "running"]
    /\ UNCHANGED <<job, castVars, args, apiKey, nKeyframes, sceneTask, nScenes,
                   leonardo_prompt, gsTts, story, amTts, unitVars, now>>

\* A stage the entrypoint calls and waits for at once: t.result() returns and
\* the stages in next are called, or the task's exception ends the run.
SeqStage(t, next, pc, ok) ==
    /\ gsPc = t
    /\ task[t] = "running"
    /\ IF ok
       THEN /\ task' = [x \in Stages |->
                          IF x = t THEN "done"
                          ELSE IF x \in next THEN "running" ELSE task[x]]
            /\ gsPc' = pc
            /\ UNCHANGED amPc
       ELSE /\ task' = [task EXCEPT ![t] = "failed"]
            /\ Raise
    /\ UNCHANGED <<job, dialog, visual_style, speaker,
                   previously_seen_characters, seenLoop, args, apiKey, nKeyframes, sceneTask, nScenes,
                   leonardo_prompt, gsTts, story, amTts, unitVars, now>>

generate_script(ok) ==
    /\ SeqStage("script", {"characters"}, "characters", ok)
    /\ UNCHANGED characters

\* characters = extract_characters(script).result(): the roster of the run
extract_characters(roster, ok) ==
    /\ SeqStage("characters", {"enhance"}, "enhance", ok)
    /\ characters' = IF ok THEN roster ELSE characters

enhance_script(ok) ==
    /\ SeqStage("enhance", {"keyframes", "style"}, "initial", ok)
    /\ UNCHANGED characters

extract_keyframes(n, ok) ==
    /\ task["keyframes"] = "running"
    /\ task' = [task EXCEPT !["keyframes"] = IF ok THEN "done" ELSE "failed"]
    /\ nKeyframes' = IF ok THEN n ELSE nKeyframes
    /\ UNCHANGED <<job, castVars, args, apiKey, amPc, gsPc, sceneTask, nScenes,
                   leonardo_prompt, gsTts, story, amTts, unitVars, now>>

determine_visual_style(style, ok) ==
    /\ task["style"] = "running"
    /\ task' = [task EXCEPT !["style"] = IF ok THEN "done" ELSE "failed"]
    /\ visual_style' = IF ok THEN style ELSE visual_style
    /\ UNCHANGED <<job, dialog, characters, speaker,
                   previously_seen_characters, seenLoop, args, apiKey, amPc, gsPc, nKeyframes, sceneTask,
                   nScenes, leonardo_prompt, gsTts, story, amTts, unitVars,
                   now>>

\* A faulty variant: the scene tasks start as soon as the keyframes are known.
InitialJoinedOnKeyframes == task["keyframes"] = "done"

\* results = {name: task.result() ...}: both initial tasks have returned
InitialJoined == task["keyframes"] = "done" /\ task["style"] = "done"

\* the first of the two results, in dict order, that raises
InitialRaises ==
    IF task["keyframes"] = "done"
    THEN task["style"] = "failed"
    ELSE task["keyframes"] = "failed"

JoinInitial ==
    /\ gsPc = "initial"
    /\ IF InitialJoined THEN TRUE ELSE InitialRaises
    /\ IF InitialJoined
       THEN /\ sceneTask' = [k \in KF |->
                               IF k <= nKeyframes THEN "running" ELSE "idle"]
            /\ gsPc' = "scenes"
            /\ UNCHANGED amPc
       ELSE Raise /\ UNCHANGED sceneTask
    /\ UNCHANGED <<job, castVars, args, apiKey, task, nKeyframes, nScenes, leonardo_prompt,
                   gsTts, story, amTts, unitVars, now>>

\* for scene in scenes.scenes: for char_name in scene.characters_in_scene:
\* the names the loop of a task goes through, none without scenes
LoopNames(c, names) == IF c = 0 THEN <<>> ELSE names

\* generate_keyframe_scenes of keyframe k up to its update loop: the chat
\* completion returns c scenes, spoken by sp[1], ..., sp[c], whose
\* characters_in_scene hold names, or it raises
generate_keyframe_scenes(k, c, sp, names, ok) ==
    /\ sceneTask[k] = "running"
    /\ IF ok
       THEN /\ nScenes' = [nScenes EXCEPT ![k] = c]
            /\ speaker' = [speaker EXCEPT
                  ![k] = [s \in SC |-> IF s <= c THEN sp[s] ELSE "-"]]
            /\ seenLoop' = [seenLoop EXCEPT
                  ![k] = [names |-> LoopNames(c, names), i |-> 0]]
            /\ sceneTask' = [sceneTask EXCEPT
                  ![k] = IF LoopNames(c, names) = <<>> THEN "done"
                         ELSE "update"]
       ELSE /\ sceneTask' = [sceneTask EXCEPT ![k] = "failed"]
            /\ UNCHANGED <<nScenes, speaker, seenLoop>>
    /\ UNCHANGED <<job, dialog, characters, visual_style,
                   previously_seen_characters, args, apiKey, amPc, gsPc, task, nKeyframes,
                   leonardo_prompt, gsTts, story, amTts, unitVars, now>>

\* previously_seen_characters.add(char_name): one pass of the loop of the
\* task of keyframe k, which returns after the last
SeenAdd(k) ==
    /\ sceneTask[k] = "update"
    /\ LET l == seenLoop[k] IN
       /\ previously_seen_characters' =
             previously_seen_characters \cup {l.names[l.i + 1]}
       /\ seenLoop' = [seenLoop EXCEPT ![k].i = l.i + 1]
       /\ sceneTask' = [sceneTask EXCEPT
             ![k] = IF l.i + 1 = Len(l.names) THEN "done" ELSE "update"]
    /\ UNCHANGED <<job, dialog, characters, visual_style, speaker, args,
                   apiKey, amPc, gsPc, task, nKeyframes, nScenes, leonardo_prompt, gsTts,
                   story, amTts, unitVars, now>>

\* [task.result() for task in tasks]: the results are taken in list order, so
\* the first task that has not returned decides.
FirstOpen(state, n) ==
    IF \E i \in 1..n : state[i] # "done"
    THEN CHOOSE i \in 1..n :
            state[i] # "done" /\ \A j \in 1..(i - 1) : state[j] = "done"
    ELSE 0

JoinScenes ==
    /\ gsPc = "scenes"
    /\ LET f == FirstOpen(sceneTask, nKeyframes) IN
       /\ IF f = 0 THEN TRUE ELSE sceneTask[f] = "failed"
       /\ IF f # 0
          THEN Raise /\ UNCHANGED <<task, gsTts, story>>
          ELSE IF should_generate_images
          THEN /\ gsPc' = "optimize"
               /\ UNCHANGED <<amPc, task, gsTts, story>>
          ELSE LaunchVoiceovers /\ UNCHANGED task
    /\ UNCHANGED <<job, castVars, args, apiKey, nKeyframes, sceneTask, nScenes,
                   leonardo_prompt, amTts, unitVars, now>>

optimize_leonardo_prompts(response, ok) ==
    /\ gsPc = "optimize"
    /\ LET optimized_prompts == ParsePrompts(response) IN
       IF ~ok \/ Len(optimized_prompts) < Len(Flat)
       THEN Raise /\ UNCHANGED <<leonardo_prompt, gsTts, story>>
       ELSE /\ leonardo_prompt' = AssignPrompts(optimized_prompts)
            /\ LaunchVoiceovers
    /\ UNCHANGED <<job, castVars, args, apiKey, task, nKeyframes, sceneTask, nScenes, amTts,
                   unitVars, now>>

generate_voiceover(i, ok) ==
    /\ gsTts[i] = "running"
    /\ gsTts' = [gsTts EXCEPT ![i] = IF ok THEN "done" ELSE "failed"]
    /\ UNCHANGED <<job, castVars, args, apiKey, amPc, gsPc, task, nKeyframes, sceneTask,
                   nScenes, leonardo_prompt, story, amTts, unitVars, now>>

JoinVoiceovers ==
    /\ gsPc = "voiceover"
    /\ LET f == FirstOpen(gsTts, Len(Flat)) IN
       /\ IF f = 0 THEN TRUE ELSE gsTts[f] = "failed"
       /\ IF f # 0 THEN Raise /\ UNCHANGED story ELSE Combine
    /\ UNCHANGED <<job, castVars, args, apiKey, task, nKeyframes, sceneTask, nScenes,
                   leonardo_prompt, gsTts, amTts, unitVars, now>>

\* ------------------------------------------------------------- async_main
\* the scenes of the entries of story, flattened as async_main's loops do
StoryFlat == FlatUpTo(nScenes, Len(story))

\* tasks = [process_keyframe(...) for idx, ... in enumerate(story, start=1)]
StartUnits ==
    /\ pkPc' = [k \in KF |-> IF k <= Len(story) THEN "write" ELSE "idle"]
    /\ amPc' = "process"

AmPost ==
    /\ amPc = "post"
    /\ IF story = <<>>
       THEN amPc' = "returned" /\ UNCHANGED <<files, amTts, pkPc>>
       ELSE /\ files' = files \cup {<<"metadata.json", 0, 0>>}
            /\ IF args.voiceover
               THEN /\ amPc' = "voiceover"
                    /\ amTts' = [next |-> 1, failed |-> FALSE]
                    /\ UNCHANGED pkPc
               ELSE StartUnits /\ UNCHANGED amTts
    /\ UNCHANGED <<job, castVars, jobVars, styleIds, args, apiKey, gsPc, pipeVars, story, imgScene, imgAttempt, imgPrompt,
                   imgPhase, imgStart, imgResult, attempts, vid, vidStart,
                   motionSubmits, staticCalls, now>>

\* generate_voiceover_async of the scene StoryFlat[amTts.next]: the coroutines
\* gathered are synchronous, so they run one after the other, all of them,
\* before gather hands the first exception to async_main.
generate_voiceover_async(ok) ==
    /\ amPc = "voiceover"
    /\ LET failed == amTts.failed \/ ~ok IN
       /\ amTts' = [next |-> amTts.next + 1, failed |-> failed]
       /\ IF amTts.next < Len(StoryFlat)
          THEN UNCHANGED <<amPc, pkPc>>
          ELSE IF failed
          THEN amPc' = "crashed" /\ UNCHANGED pkPc
          ELSE StartUnits
    /\ UNCHANGED <<job, castVars, jobVars, styleIds, args, apiKey, gsPc, pipeVars, story, imgScene, imgAttempt, imgPrompt,
                   imgPhase, imgStart, imgResult, attempts, vid, vidStart,
                   motionSubmits, staticCalls, files, now>>

\* voiceovers[idx-1]: grouped_voiceovers regroups by len(scenes)
AudioData(k) ==
    IF args.voiceover THEN [s \in 1..nScenes[k] |-> <<k, s>>] ELSE <<>>

\* A faulty variant: the join returns with the first unit.
FirstUnitReturned == pkPc[1] \in {"done", "error"}

\* await asyncio.gather(*tasks): every coroutine has returned
UnitsReturned == \A k \in 1..Len(story) : pkPc[k] \in {"done", "error"}

AmJoin ==
    /\ amPc = "process"
    /\ UnitsReturned
    /\ amPc' = "done"
    /\ UNCHANGED <<job, castVars, args, apiKey, gsPc, pipeVars, story, amTts, unitVars, now>>

\* -------------------------------------------------------- process_keyframe
RECURSIVE SceneFiles(_, _)
SceneFiles(k, n) ==
    IF n = 0 THEN <<>>
    ELSE SceneFiles(k, n - 1) \o << <<"scene.txt", k, n>>, <<"dialog.json", k, n>> >>

\* the files process_keyframe writes before any image work, in order
WriteOrder(k) ==
    << <<"keyframe.txt", k, 0>> >> \o SceneFiles(k, nScenes[k])
        \o [s \in 1..Len(AudioData(k)) |-> <<"voiceover.mp3", k, s>>]

\* args.motion or args.static_vid, as process_keyframe is given it
generate_video == args.motion \/ args.static_vid

\* A faulty variant: every video is made through the motion API.
UseMotionForAnyVideo == args.motion \/ args.static_vid

\* args.motion, as process_keyframe is given it
use_motion == args.motion

\* A faulty variant: a video task is created for every scene.
ImagePathIgnored(result) == TRUE

\* if image_result[0]: the image path exists
ImagePathExists(result) == result \in {"ok_id", "ok_noid"}

\* output_dir / f"keyframe_{keyframe_num}.jpg" of scene (k, s), and the
\* image_result[0] the video task of the scene is given
ImagePath(k, s) == <<"keyframe.jpg", k, s>>

\* scene.description, a text of its own for every scene: the one piece
\* <<-2, n>>, n numbering the scenes
Description(k, s) == << <<0 - 2, k * (MaxScenes + 1) + s>> >>

\* The empty string: the one prompt Python's truth test takes for false.
EmptyPrompt == << <<0, 0>> >>

\* A faulty variant: only a missing prompt is replaced by the description.
TruthyUnlessNone(prompt) == prompt # None

\* Python's truth test of scene.leonardo_prompt
Truthy(prompt) == prompt # None /\ prompt # EmptyPrompt

\* prompt = scene.leonardo_prompt if scene.leonardo_prompt else
\* scene.description
EffectivePrompt(k, s) ==
    IF Truthy(leonardo_prompt[k][s]) THEN leonardo_prompt[k][s]
    ELSE Description(k, s)

\* " Detailed high quality illustration, ... 8k resolution.": the piece
\* <<-1, 0>>
QualitySuffix == <<0 - 1, 0>>

\* A faulty variant: every attempt submits the prompt it was given.
AttemptPromptVerbatim(keyframe_desc, attempt) == keyframe_desc

\* the prompt attempt_generation is called with: keyframe_desc on attempt 1,
\* f"{keyframe_desc} <suffix>" on every retry
AttemptPrompt(keyframe_desc, attempt) ==
    IF attempt = 1 THEN keyframe_desc
    ELSE Append(keyframe_desc, QualitySuffix)

\* A faulty variant: max_retries read as the number of retries that follow
\* the first attempt.
HasNextAttemptAfterFirst(a) == a <= max_retries

\* for retry in range(2, max_retries + 1): is there an attempt after attempt a
HasNextAttempt(a) == a + 1 <= max_retries

\* The state of process_keyframe k once the image results are all in: the
\* video tasks are created for the scenes with an image and gathered.
VideoTasks(k, results) ==
    [s \in SC |->
        IF generate_video /\ s <= nScenes[k] /\ ImagePathExists(results[k][s])
        THEN IF use_motion THEN "submit" ELSE "static"
        ELSE "none"]

\* process_keyframe k goes on with the result of the image task it awaits
ImageReturns(k, result) ==
    LET s == imgScene[k]
        results == [imgResult EXCEPT ![k][s] = result]
    IN  /\ imgResult' = results
        /\ imgStart' = [imgStart EXCEPT ![k] = 0]
        /\ IF s < nScenes[k]
           THEN /\ imgScene' = [imgScene EXCEPT ![k] = s + 1]
                /\ imgAttempt' = [imgAttempt EXCEPT ![k] = 1]
                /\ imgPrompt' = [imgPrompt EXCEPT
                      ![k] = AttemptPrompt(EffectivePrompt(k, s + 1), 1)]
                /\ imgPhase' = [imgPhase EXCEPT ![k] = "submit"]
                /\ attempts' = [attempts EXCEPT ![k][s + 1] = @ + 1]
                /\ UNCHANGED <<vid, pkPc>>
           ELSE /\ imgScene' = [imgScene EXCEPT ![k] = 0]
                /\ imgAttempt' = [imgAttempt EXCEPT ![k] = 0]
                /\ imgPrompt' = [imgPrompt EXCEPT ![k] = None]
                /\ imgPhase' = [imgPhase EXCEPT ![k] = "idle"]
                /\ vid' = [vid EXCEPT ![k] = VideoTasks(k, results)]
                /\ pkPc' = [pkPc EXCEPT ![k] =
                       IF \E x \in SC : VideoTasks(k, results)[x] # "none"
                       THEN "videos" ELSE "done"]
                /\ UNCHANGED attempts

\* A faulty variant: the keyframe's image loop ends at the first scene whose
\* image could not be generated.
ImageExhaustedEndsKeyframe(k) ==
    /\ imgResult' = [imgResult EXCEPT ![k][imgScene[k]] = "null"]
    /\ imgStart' = [imgStart EXCEPT ![k] = 0]
    /\ imgScene' = [imgScene EXCEPT ![k] = 0]
    /\ imgAttempt' = [imgAttempt EXCEPT ![k] = 0]
    /\ imgPrompt' = [imgPrompt EXCEPT ![k] = None]
    /\ imgPhase' = [imgPhase EXCEPT ![k] = "idle"]
    /\ pkPc' = [pkPc EXCEPT ![k] = "done"]
    /\ UNCHANGED <<attempts, vid>>

\* "All attempts failed": generate_image_for_keyframe returns
\* (None, None, None) to process_keyframe
ImageExhausted(k) == ImageReturns(k, "null")

\* attempt_generation returned (None, None, None): the next attempt, with the
\* modified prompt, or the null result
AttemptFailed(k) ==
    IF HasNextAttempt(imgAttempt[k])
    THEN /\ imgAttempt' = [imgAttempt EXCEPT ![k] = @ + 1]
         /\ imgPrompt' = [imgPrompt EXCEPT
               ![k] = AttemptPrompt(EffectivePrompt(k, imgScene[k]),
                                    imgAttempt[k] + 1)]
         /\ imgPhase' = [imgPhase EXCEPT ![k] = "submit"]
         /\ imgStart' = [imgStart EXCEPT ![k] = 0]
         /\ attempts' = [attempts EXCEPT ![k][imgScene[k]] = @ + 1]
         /\ UNCHANGED <<imgScene, imgResult, vid, pkPc>>
    ELSE ImageExhausted(k)

\* A faulty variant: the exception leaves process_keyframe and, through
\* gather, async_main.
ExceptionEscapes(k) ==
    /\ pkPc' = [pkPc EXCEPT ![k] = "error"]
    /\ amPc' = "crashed"

\* except Exception as e: logger.error("Error processing keyframe ..."): the
\* coroutine of keyframe k returns None
ExceptionLogged(k) ==
    /\ pkPc' = [pkPc EXCEPT ![k] = "error"]
    /\ UNCHANGED amPc

\* process_keyframe up to its image tasks: the j first files of WriteOrder
\* are written, the next write raises when j is not the last
PkWrite(k, j) ==
    /\ pkPc[k] = "write"
    /\ files' = files \cup {WriteOrder(k)[i] : i \in 1..j}
    /\ IF j < Len(WriteOrder(k))
       THEN /\ ExceptionLogged(k)
            /\ UNCHANGED <<imgScene, imgAttempt, imgPrompt, imgPhase, attempts>>
       ELSE IF args.images
       THEN /\ UNCHANGED amPc
            /\ imgScene' = [imgScene EXCEPT ![k] = 1]
            /\ imgAttempt' = [imgAttempt EXCEPT ![k] = 1]
            /\ imgPrompt' = [imgPrompt EXCEPT
                  ![k] = AttemptPrompt(EffectivePrompt(k, 1), 1)]
            /\ imgPhase' = [imgPhase EXCEPT ![k] = "submit"]
            /\ attempts' = [attempts EXCEPT ![k][1] = @ + 1]
            /\ pkPc' = [pkPc EXCEPT ![k] = "images"]
       ELSE /\ pkPc' = [pkPc EXCEPT ![k] = "done"]
            /\ UNCHANGED <<amPc, imgScene, imgAttempt, imgPrompt, imgPhase,
                           attempts>>
    /\ UNCHANGED <<job, castVars, jobVars, styleIds, args, apiKey, gsPc, pipeVars, story, amTts, imgStart,
                   imgResult, vid, vidStart, motionSubmits, staticCalls, now>>

\* ------------------------------------------------ the image service (remote)
\* What one status fetch of a generation job can answer.  PENDING stands for
\* every status that is neither COMPLETE nor FAILED nor DELETED.  images says
\* what generated_images of a COMPLETE payload holds: nothing, an image
\* without url, an image with url; hasId whether that image carries an id.
Answer(code, status, images, hasId) ==
    [code |-> code, status |-> status, images |-> images, hasId |-> hasId]

\* The remote services of a run, e: a job may still be pending only while the
\* clock is below e.h; e.ids says whether generated images carry an id (TRUE),
\* lack one (FALSE); e.motion are the answers to a motion submit; e.renders
\* are the outcomes of an ffmpeg run; e.maxK and
\* e.maxS are the most keyframes and scenes per keyframe a chat completion
\* returns.
StatusAnswers(e) ==
    {Answer("non200", "-", "none", FALSE), Answer("raise", "-", "none", FALSE),
     Answer("200", "FAILED", "none", FALSE),
     Answer("200", "DELETED", "none", FALSE),
     Answer("200", "COMPLETE", "none", FALSE)}
    \cup {Answer("200", "COMPLETE", i, b) : i \in {"nourl", "url"}, b \in e.ids}
    \cup (IF now < e.h THEN {Answer("200", "PENDING", "none", FALSE)} ELSE {})

SubmitAnswers == {"ok", "non200", "no_id", "raise"}
\* "200_empty" is a 200 response whose body has no bytes
DownloadAnswers == {"200", "200_empty", "non200", "raise"}
RenderAnswers == {"ok", "nonzero", "raise"}

\* a download is made only of the url of a COMPLETE payload
DownloadsOf(r) ==
    IF r.code = "200" /\ r.status = "COMPLETE" /\ r.images = "url"
    THEN DownloadAnswers ELSE {"-"}

\* ffmpeg runs only on the fallback path
RendersOf(out, e) == IF out = "static" THEN e.renders ELSE {"-"}

\* A faulty variant: a 200 response is taken for an accepted job even when it
\* carries no generation id.
SubmitReturnsOnAny200(resp) ==
    IF resp \in {"ok", "no_id"} THEN "id"
    ELSE IF resp = "raise" THEN "raise" ELSE "None"

\* LeonardoAPI.generate_image_for_keyframe / generate_motion: a generation id
\* only for a 200 response that carries one, None otherwise
SubmitReturns(resp) ==
    IF resp = "ok" THEN "id" ELSE IF resp = "raise" THEN "raise" ELSE "None"

\* A faulty variant: the loop goes round once more on a COMPLETE status.
PollIterationMissesComplete(r) ==
    IF r.code = "raise" THEN "raise"
    ELSE IF r.code # "200" THEN "None"
    ELSE IF r.status \in {"FAILED", "DELETED"} THEN "None"
    ELSE "sleep"

\* A faulty variant: a FAILED or DELETED job raises.
PollIterationRaisesOnFailed(r) ==
    IF r.code = "raise" THEN "raise"
    ELSE IF r.code # "200" THEN "None"
    ELSE IF r.status = "COMPLETE" THEN "data"
    ELSE IF r.status \in {"FAILED", "DELETED"} THEN "raise"
    ELSE "sleep"

\* A faulty variant: a non-200 answer to the status fetch is tried again.
PollIterationRetriesTransport(r) ==
    IF r.code = "raise" THEN "raise"
    ELSE IF r.code # "200" THEN "sleep"
    ELSE IF r.status = "COMPLETE" THEN "data"
    ELSE IF r.status \in {"FAILED", "DELETED"} THEN "None"
    ELSE "sleep"

\* A faulty variant: a DELETED job is polled on.
PollIterationDeletedPending(r) ==
    IF r.code = "raise" THEN "raise"
    ELSE IF r.code # "200" THEN "None"
    ELSE IF r.status = "COMPLETE" THEN "data"
    ELSE IF r.status = "FAILED" THEN "None"
    ELSE "sleep"

\* One iteration of the loop of LeonardoAPI.poll_generation_status and of
\* poll_motion_status: what the call returns, or "sleep" when it goes round.
PollIteration(r) ==
    IF r.code = "raise" THEN "raise"
    ELSE IF r.code # "200" THEN "None"
    ELSE IF r.status = "COMPLETE" THEN "data"
    ELSE IF r.status \in {"FAILED", "DELETED"} THEN "None"
    ELSE "sleep"

\* if response.status == 200: the body, whatever it holds, is written
Saved(dl) == dl \in {"200", "200_empty"}

\* time.time() - start_time > max_poll_time
Exceeded(elapsed) == elapsed > max_poll_time

TimedOut(start) == Exceeded(now - start)

\* what the timed-out branch hands back: (None, None, None) from
\* attempt_generation, the static fallback from generate_motion_for_image
TimeoutOutcome(kind) == IF kind = "image" THEN "fail" ELSE "static"

\* A faulty variant: the image counts as saved whatever the download answered.
HandleImagePollIgnoresDownload(ret, r, dl) ==
    IF ret = "raise" THEN "fail"
    ELSE IF ret = "None" THEN "fail"
    ELSE IF r.status = "COMPLETE"
         THEN IF r.images = "url"
              THEN IF r.hasId THEN "ok_id" ELSE "ok_noid"
              ELSE "fail"
         ELSE IF r.status \in {"FAILED", "DELETED"} THEN "fail"
         ELSE "outer_sleep"

\* attempt_generation on the value poll_generation_status returned, with the
\* answer dl of the image download: the attempt's outcome
HandleImagePoll(ret, r, dl) ==
    IF ret = "raise" THEN "fail"
    ELSE IF ret = "None" THEN "fail"
    ELSE IF r.status = "COMPLETE"
         THEN IF r.images = "url" /\ Saved(dl)
              THEN IF r.hasId THEN "ok_id" ELSE "ok_noid"
              ELSE "fail"
         ELSE IF r.status \in {"FAILED", "DELETED"} THEN "fail"
         ELSE "outer_sleep"

\* generate_motion_for_image on the value poll_motion_status returned, with
\* the answer dl of the video download (r.images = "url": the payload has url)
HandleMotionPoll(ret, r, dl) ==
    IF ret = "raise" THEN "static"
    ELSE IF ret = "None" THEN "static"
    ELSE IF r.status = "COMPLETE"
         THEN IF r.images = "url" /\ Saved(dl) THEN "motion" ELSE "static"
         ELSE IF r.status \in {"FAILED", "DELETED"} THEN "static"
         ELSE "outer_sleep"

\* ------------------------------------- generate_image_for_keyframe (retry)
ImageOutcome(k, out) ==
    CASE out = "fail" -> AttemptFailed(k) /\ UNCHANGED files
      [] out \in {"ok_id", "ok_noid"} ->
            /\ ImageReturns(k, out)
            /\ files' = files \cup {ImagePath(k, imgScene[k])}
      [] OTHER ->
            /\ imgPhase' = [imgPhase EXCEPT ![k] = out]
            /\ UNCHANGED <<imgScene, imgAttempt, imgPrompt, imgStart, imgResult,
                           attempts, vid, pkPc, files>>

\* The styles of schemas.LeonardoStyles the runs choose from, str.lower of
\* each, and the style id of LEONARDO_STYLE_IDS for the member of
\* leonardo_api.LeonardoStyles with that value (the first group of each id).
StyleCatalog == {"RENDER_3D", "NONE", "WATERCOLOR"}

Lower(style) ==
    CASE style = "RENDER_3D" -> "render_3d"
      [] style = "NONE" -> "none"
      [] style = "WATERCOLOR" -> "watercolor"

LEONARDO_STYLE_IDS ==
    [render_3d |-> "debdf72a", none |-> "556c1ee5", watercolor |-> "1db308ce"]

\* visual_style = story[0][2]
StoryStyle == story[1].style

\* A faulty variant: every job is submitted with the style NONE.
StyleOfAttemptUnstyled(style) == LEONARDO_STYLE_IDS["none"]

\* style = LeonardoStyles(visual_style.lower()), then "styleUUID":
\* LEONARDO_STYLE_IDS[style] in the body of the submit
StyleOfAttempt(style) == LEONARDO_STYLE_IDS[Lower(style)]

\* What the running generate_image_for_keyframe of keyframe k has sent and
\* holds after a step: nothing once it has returned (the next scene's unit
\* starts afresh), else its submits, its fetches and the generation_id of the
\* attempt in progress.
JobLog(k, jobs, polls, held) ==
    IF imgScene'[k] # imgScene[k]
    THEN /\ imgJobs' = [imgJobs EXCEPT ![k] = <<>>]
         /\ imgPolls' = [imgPolls EXCEPT ![k] = {}]
         /\ imgJob' = [imgJob EXCEPT ![k] = 0]
    ELSE /\ imgJobs' = [imgJobs EXCEPT ![k] = jobs]
         /\ imgPolls' = [imgPolls EXCEPT ![k] = polls]
         /\ imgJob' = [imgJob EXCEPT ![k] = held]

\* A faulty variant: every attempt polls the job of the first submit.
PolledFirstJob(k) == 1

\* lambda: leonardo_client.poll_generation_status(generation_id): the id of
\* the attempt's own submit
PolledJob(k) == imgJob[k]

\* the generation_id an attempt holds after an outcome: its own while it
\* waits, none once it has returned
HeldAfter(k, out) ==
    IF out \in {"sleep", "outer_sleep"} THEN imgJob[k] ELSE 0

\* attempt_generation up to its first fetch: the submit, then start_time and
\* the first test of the polling time
ImageSubmit(k, resp) ==
    /\ pkPc[k] = "images"
    /\ imgPhase[k] = "submit"
    /\ styleIds' = styleIds \cup {StyleOfAttempt(StoryStyle)}
    /\ LET jobs == Append(imgJobs[k], imgAttempt[k]) IN
       IF SubmitReturns(resp) = "id"
       THEN /\ imgStart' = [imgStart EXCEPT ![k] = now]
            /\ imgPhase' = [imgPhase EXCEPT ![k] = "poll"]
            /\ UNCHANGED <<imgScene, imgAttempt, imgPrompt, imgResult, attempts, vid,
                           pkPc, files>>
            /\ JobLog(k, jobs, imgPolls[k], Len(jobs))
       ELSE /\ ImageOutcome(k, "fail")
            /\ JobLog(k, jobs, imgPolls[k], 0)
    /\ UNCHANGED <<job, castVars, args, apiKey, amPc, gsPc, pipeVars, story, amTts,
                   vidStart, motionSubmits, staticCalls, now>>

\* one status fetch of the image job, and what follows it without a sleep
ImagePoll(k, e) ==
    /\ pkPc[k] = "images"
    /\ imgPhase[k] \in {"poll", "check"}
    /\ IF imgPhase[k] = "check" /\ TimedOut(imgStart[k])
       THEN /\ ImageOutcome(k, TimeoutOutcome("image"))
            /\ JobLog(k, imgJobs[k], imgPolls[k], 0)
       ELSE \E r \in StatusAnswers(e) : \E dl \in DownloadsOf(r) :
               LET out == IF PollIteration(r) = "sleep" THEN "sleep"
                          ELSE HandleImagePoll(PollIteration(r), r, dl)
                   polls == imgPolls[k]
                               \cup {<<imgAttempt[k], PolledJob(k)>>}
               IN  /\ ImageOutcome(k, out)
                   /\ JobLog(k, imgJobs[k], polls, HeldAfter(k, out))
    /\ UNCHANGED <<job, castVars, styleIds, args, apiKey, amPc, gsPc, pipeVars, story, amTts,
                   vidStart, motionSubmits, staticCalls, now>>

\* --------------------------- generate_motion_for_image / static video
\* A faulty variant: a failed render is run again.
StaticVideoRetries(k, s, render) ==
    /\ staticCalls' = [staticCalls EXCEPT ![k][s] = Append(@, ImagePath(k, s))]
    /\ vid' = [vid EXCEPT ![k][s] =
                  IF render = "ok" THEN "static_ok" ELSE "static"]
    /\ vidStart' = [vidStart EXCEPT ![k][s] = 0]
    /\ files' = IF render = "ok"
                THEN files \cup {<<"keyframe.mp4", k, s>>} ELSE files

\* generate_static_video_from_image: ffmpeg writes the video on exit code 0;
\* every failure is logged inside the function
StaticVideo(k, s, render) ==
    /\ staticCalls' = [staticCalls EXCEPT ![k][s] = Append(@, ImagePath(k, s))]
    /\ vid' = [vid EXCEPT ![k][s] =
                  IF render = "ok" THEN "static_ok" ELSE "static_fail"]
    /\ vidStart' = [vidStart EXCEPT ![k][s] = 0]
    /\ files' = IF render = "ok"
                THEN files \cup {<<"keyframe.mp4", k, s>>} ELSE files

MotionOutcome(k, s, out, render) ==
    CASE out = "static" -> StaticVideo(k, s, render)
      [] out = "motion" ->
            /\ vid' = [vid EXCEPT ![k][s] = "motion"]
            /\ vidStart' = [vidStart EXCEPT ![k][s] = 0]
            /\ files' = files \cup {<<"keyframe.mp4", k, s>>}
            /\ UNCHANGED staticCalls
      [] OTHER ->
            /\ vid' = [vid EXCEPT ![k][s] = out]
            /\ UNCHANGED <<vidStart, staticCalls, files>>

\* A faulty variant: a rejected submit is tried again instead of falling back.
MotionRejectedResubmits(k, s, render) ==
    /\ vid' = [vid EXCEPT ![k][s] = "submit"]
    /\ UNCHANGED <<vidStart, staticCalls, files>>

\* "Failed to start motion generation ..., falling back to static video"
MotionRejected(k, s, render) == MotionOutcome(k, s, "static", render)

MotionSubmit(k, s, resp, e) ==
    /\ pkPc[k] = "videos"
    /\ vid[k][s] = "submit"
    /\ motionSubmits' =
          [motionSubmits EXCEPT ![k][s] = Append(@, SubmitReturns(resp))]
    /\ IF SubmitReturns(resp) = "id"
       THEN /\ vidStart' = [vidStart EXCEPT ![k][s] = now]
            /\ vid' = [vid EXCEPT ![k][s] = "poll"]
            /\ UNCHANGED <<staticCalls, files>>
       ELSE \E render \in e.renders : MotionRejected(k, s, render)
    /\ UNCHANGED <<job, castVars, jobVars, styleIds, args, apiKey, amPc, gsPc, pipeVars, story, amTts, pkPc,
                   imgScene, imgAttempt, imgPrompt, imgPhase, imgStart, imgResult,
                   attempts, now>>

MotionPoll(k, s, e) ==
    /\ pkPc[k] = "videos"
    /\ vid[k][s] \in {"poll", "check"}
    /\ IF vid[k][s] = "check" /\ TimedOut(vidStart[k][s])
       THEN \E render \in e.renders :
               MotionOutcome(k, s, TimeoutOutcome("motion"), render)
       ELSE \E r \in StatusAnswers(e) : \E dl \in DownloadsOf(r) :
               LET out == IF PollIteration(r) = "sleep" THEN "sleep"
                          ELSE HandleMotionPoll(PollIteration(r), r, dl)
               IN  \E render \in RendersOf(out, e) :
                      MotionOutcome(k, s, out, render)
    /\ UNCHANGED <<job, castVars, jobVars, styleIds, args, apiKey, amPc, gsPc, pipeVars, story, amTts, pkPc,
                   imgScene, imgAttempt, imgPrompt, imgPhase, imgStart, imgResult,
                   attempts, motionSubmits, now>>

\* the video task of a scene when only --static-vid is set
StaticOnly(k, s, render) ==
    /\ pkPc[k] = "videos"
    /\ vid[k][s] = "static"
    /\ StaticVideo(k, s, render)
    /\ UNCHANGED <<job, castVars, jobVars, styleIds, args, apiKey, amPc, gsPc, pipeVars, story, amTts, pkPc,
                   imgScene, imgAttempt, imgPrompt, imgPhase, imgStart, imgResult,
                   attempts, motionSubmits, now>>

VideoEnded(v) == v \in {"none", "motion", "static_ok", "static_fail"}

\* await asyncio.gather(*video_tasks) returns
PkJoinVideos(k) ==
    /\ pkPc[k] = "videos"
    /\ \A s \in SC : VideoEnded(vid[k][s])
    /\ pkPc' = [pkPc EXCEPT ![k] = "done"]
    /\ UNCHANGED <<job, castVars, jobVars, styleIds, args, apiKey, amPc, gsPc, pipeVars, story, amTts, imgScene,
                   imgAttempt, imgPrompt, imgPhase, imgStart, imgResult, attempts, vid,
                   vidStart, motionSubmits, staticCalls, files, now>>

\* main: asyncio.run(async_main(args)) returns and the interpreter exits with
\* 0, or the exception leaves main and it exits with 1; -1 while running
ExitCode ==
    IF amPc = "crashed" THEN 1
    ELSE IF amPc \in {"returned", "done"} THEN 0 ELSE 0 - 1

\* ------------------------------------------------------------------- time
Wake(phase) ==
    IF phase = "sleep" THEN "poll"
    ELSE IF phase = "outer_sleep" THEN "check" ELSE phase

Sleeping(phase) == phase \in {"sleep", "outer_sleep"}

\* PollSleep seconds pass: every sleeper's sleep returns
Tick ==
    /\ \E k \in KF : \E s \in SC :
          IF Sleeping(imgPhase[k]) THEN TRUE ELSE Sleeping(vid[k][s])
    /\ now' = now + PollSleep
    /\ imgPhase' = [k \in KF |-> Wake(imgPhase[k])]
    /\ vid' = [k \in KF |-> [s \in SC |-> Wake(vid[k][s])]]
    /\ UNCHANGED <<job, castVars, jobVars, styleIds, args, apiKey, amPc, gsPc, pipeVars, story, amTts, pkPc,
                   imgScene, imgAttempt, imgPrompt, imgStart, imgResult, attempts,
                   vidStart, motionSubmits, staticCalls, files>>

\* ------------------------------------------------- one remote job, alone
\* The calls made for one job, as attempt_generation (kind "image") and
\* generate_motion_for_image (kind "motion") make them, against a stub: submit
\* is the answer to the submit; the status source answers PENDING pending
\* times (other) and then last; elapsed is what time.time() - start_time reads at the
\* test of the polling time; dl is the answer to the download.
Pending == Answer("200", "PENDING", "none", FALSE)

\* generation_data.get("status") of a payload without a status: None
MissingStatus == Answer("200", "None", "none", FALSE)

\* other is what the stub answers while the job is not terminal
JobInputs ==
    [kind : {"image", "motion"}, submit : SubmitAnswers,
     pending : 0..MaxPending, other : {Pending, MissingStatus},
     last : StatusAnswers([h |-> 0, ids |-> BOOLEAN]),
     elapsed : {0, max_poll_time + 1}, dl : DownloadAnswers]

NewJob(in) ==
    [pc |-> "submit", in |-> in, submitted |-> "-", fetches |-> 0,
     sleeps |-> 0, polled |-> "-", downloaded |-> "-", out |-> "-",
     written |-> "none"]

InitJob ==
    /\ InitPipeline
    /\ ~args.images /\ ~args.motion /\ ~args.static_vid /\ ~args.voiceover
    /\ ~apiKey
    /\ \E in \in JobInputs : job = NewJob(in)
    /\ dialog = NoDialog

\* the failure path of the caller: the attempt returns (None, None, None),
\* the motion path falls back to the static video
JobFailure(kind) == IF kind = "image" THEN "fail" ELSE "static"

\* generate_image_for_keyframe / generate_motion of LeonardoAPI, and the
\* caller's test of what it returned
JobSubmit ==
    /\ job.pc = "submit"
    /\ job' = [job EXCEPT
          !.submitted = SubmitReturns(job.in.submit),
          !.pc = IF SubmitReturns(job.in.submit) = "id" THEN "check"
                 ELSE "done",
          !.out = IF SubmitReturns(job.in.submit) = "id" THEN "-"
                  ELSE JobFailure(job.in.kind)]

\* start_time = time.time(), then the test of the polling time
JobCheck ==
    /\ job.pc = "check"
    /\ job' = IF Exceeded(job.in.elapsed)
              THEN [job EXCEPT !.pc = "done",
                               !.out = TimeoutOutcome(job.in.kind)]
              ELSE [job EXCEPT !.pc = "fetch"]

\* the answer of the stub to the next status fetch
JobAnswer ==
    IF job.fetches < job.in.pending THEN job.in.other ELSE job.in.last

\* requests.get(url) inside poll_generation_status / poll_motion_status
JobFetch ==
    /\ job.pc = "fetch"
    /\ job' = IF PollIteration(JobAnswer) = "sleep"
              THEN [job EXCEPT !.fetches = @ + 1, !.pc = "sleep"]
              ELSE [job EXCEPT !.fetches = @ + 1, !.pc = "handle",
                               !.polled = PollIteration(JobAnswer)]

\* time.sleep(5)
JobSleep ==
    /\ job.pc = "sleep"
    /\ job' = [job EXCEPT !.sleeps = @ + 1, !.pc = "fetch"]

\* the caller on the value the poll returned: the download, the file
JobHandle ==
    /\ job.pc = "handle"
    /\ LET r == job.in.last
           dl == IF job.in.dl \in DownloadsOf(r) /\ job.polled = "data"
                 THEN job.in.dl ELSE "-"
           out == IF job.in.kind = "image"
                  THEN HandleImagePoll(job.polled, r, dl)
                  ELSE HandleMotionPoll(job.polled, r, dl)
       IN  job' = [job EXCEPT
              !.pc = "done", !.downloaded = dl, !.out = out,
              !.written = IF out \in {"ok_id", "ok_noid", "motion"}
                          THEN IF dl = "200_empty" THEN "empty" ELSE "bytes"
                          ELSE "none"]

NextJob ==
    /\ \/ JobSubmit
       \/ JobCheck
       \/ JobFetch
       \/ JobSleep
       \/ JobHandle
    /\ UNCHANGED <<castVars, args, apiKey, amPc, gsPc, pipeVars, story, amTts,
                   unitVars, now>>

\* ------------------------------------------------------ output file paths
\* str(n) of a positive index, one character per element
DecimalDigit(d) == <<"0", "1", "2", "3", "4", "5", "6", "7", "8", "9">>[d + 1]

RECURSIVE Decimal(_)
Decimal(n) ==
    IF n < 10 THEN <<DecimalDigit(n)>>
    ELSE Append(Decimal(n \div 10), DecimalDigit(n % 10))

\* A faulty variant: the two indices are written one after the other.
SceneKeyUnseparated(k, s) == Decimal(k) \o Decimal(s)

\* f"{keyframe_num}_{scene_idx}"
SceneKey(k, s) == Decimal(k) \o <<"_">> \o Decimal(s)

FileKinds == {"scene", "dialog", "voiceover", "image", "video"}

\* the file name of each kind around the key of the scene
FileName(kind, k, s) ==
    CASE kind = "scene" -> <<"scene_">> \o SceneKey(k, s) \o <<".txt">>
      [] kind = "dialog" -> <<"dialog_">> \o SceneKey(k, s) \o <<".json">>
      [] kind = "voiceover" ->
            <<"voiceover_">> \o SceneKey(k, s) \o <<".mp3">>
      [] kind = "image" -> <<"keyframe_">> \o SceneKey(k, s) \o <<".jpg">>
      [] kind = "video" -> <<"keyframe_">> \o SceneKey(k, s) \o <<".mp4">>

\* output_dir / name for the text, dialog and voiceover files, images_dir /
\* name for images and videos; shared says that --images names the output
\* directory itself
FilePath(kind, k, s, shared) ==
    <<IF kind \in {"image", "video"} /\ ~shared THEN "images_dir/"
      ELSE "output_dir/">> \o FileName(kind, k, s)

\* Files written for scenes with indices up to MaxIndex, two at most: each is
\* kept with the scene it was written for.
InitPaths ==
    /\ InitPipeline
    /\ ~args.images /\ ~args.motion /\ ~args.static_vid /\ ~args.voiceover
    /\ ~apiKey
    /\ job = NoJob
    /\ dialog = NoDialog

WriteFile(kind, k, s) ==
    /\ Cardinality(files) < 2
    /\ files' = files \cup {[kind |-> kind, k |-> k, s |-> s,
                             name |-> FileName(kind, k, s)]}
    /\ UNCHANGED <<job, castVars, jobVars, styleIds, args, apiKey, amPc, gsPc, pipeVars, story, amTts, pkPc,
                   imgScene, imgAttempt, imgPrompt, imgPhase, imgStart,
                   imgResult, attempts, vid, vidStart, motionSubmits,
                   staticCalls, now>>

NextPaths ==
    \E kind \in FileKinds, k \in 1..MaxIndex, s \in 1..MaxIndex :
       WriteFile(kind, k, s)

\* ------------------------------------------------- the dialog file (JSON)
\* A text is a sequence of characters.  Those that matter to JSON are named:
\* QUOTE, BACKSLASH, NEWLINE (a control character), SPACE, the non-ASCII
\* character U+00E9; "n" is the letter.  A key or a role value is one element
\* that stands for its letters.
Alphabet == {"n", "QUOTE", "BACKSLASH", "NEWLINE", "U+00E9"}

Texts == UNION {[1..n -> Alphabet] : n \in 0..MaxText}

\* schemas.Role: member |-> value
Role ==
    [NARRATOR |-> "narrator", CHILD |-> "child", ELDER |-> "elder",
     FAE |-> "fairy", HERO |-> "hero", VILLAIN |-> "villain",
     SAGE |-> "sage", SIDEKICK |-> "sidekick"]

\* Role(value): the member with that value, "-" (ValueError) when there is
\* none
RoleOfValue(value) ==
    IF \E m \in DOMAIN Role : <<Role[m]>> = value
    THEN CHOOSE m \in DOMAIN Role : <<Role[m]>> = value
    ELSE "-"

\* the values json writes and reads here: a string, a dict in key order
Str(text) == [t |-> "str", v |-> text]
Dict(items) == [t |-> "dict", v |-> items]

\* scene.character.model_dump(): the fields in declaration order; a Role is
\* a str whose content is its value
model_dump(character) ==
    Dict(<<[key |-> <<"role">>, val |-> Str(<<Role[character.role]>>)],
           [key |-> <<"name">>, val |-> Str(character.name)],
           [key |-> <<"backstory">>, val |-> Str(character.backstory)],
           [key |-> <<"physical_description">>,
            val |-> Str(character.physical_description)],
           [key |-> <<"personality">>, val |-> Str(character.personality)]>>)

\* dialog_dict = {"character": scene.character.model_dump(),
\*                "dialog": scene.dialog}
dialog_dict(scene) ==
    Dict(<<[key |-> <<"character">>, val |-> model_dump(scene.character)],
           [key |-> <<"dialog">>, val |-> Str(scene.dialog)]>>)

\* A faulty variant: only the quote is escaped.
EscapeQuoteOnly(c) ==
    IF c = "QUOTE" THEN <<"BACKSLASH", "QUOTE">> ELSE <<c>>

\* json.dumps on one character of a string (ensure_ascii is on)
Escape(c) ==
    CASE c = "QUOTE" -> <<"BACKSLASH", "QUOTE">>
      [] c = "BACKSLASH" -> <<"BACKSLASH", "BACKSLASH">>
      [] c = "NEWLINE" -> <<"BACKSLASH", "n">>
      [] c = "U+00E9" -> <<"BACKSLASH", "u", "0", "0", "e", "9">>
      [] OTHER -> <<c>>

RECURSIVE EscapeAll(_)
EscapeAll(text) ==
    IF text = <<>> THEN <<>>
    ELSE Escape(Head(text)) \o EscapeAll(Tail(text))

EncodeString(text) == <<"QUOTE">> \o EscapeAll(text) \o <<"QUOTE">>

\* indent=2: a newline and the indentation of the level
Indent(level) == <<"NEWLINE">> \o [j \in 1..level |-> "SPACE"]

RECURSIVE DumpsAt(_, _)
RECURSIVE DumpItems(_, _, _)
DumpItems(items, j, level) ==
    IF j > Len(items) THEN <<>>
    ELSE Indent(level) \o EncodeString(items[j].key) \o <<":", "SPACE">>
            \o DumpsAt(items[j].val, level)
            \o (IF j < Len(items) THEN <<",">> ELSE <<>>)
            \o DumpItems(items, j + 1, level)

DumpsAt(o, level) ==
    IF o.t = "str" THEN EncodeString(o.v)
    ELSE IF o.v = <<>> THEN <<"{", "}">>
    ELSE <<"{">> \o DumpItems(o.v, 1, level + 2) \o Indent(level) \o <<"}">>

\* json.dumps(dialog_dict, indent=2)
json_dumps(o) == DumpsAt(o, 0)

\* json.loads: a value with the position after it, or Invalid
\* (JSONDecodeError)
Invalid == [ok |-> FALSE, v |-> Str(<<>>), next |-> 0]

At(text, i) == IF i >= 1 /\ i <= Len(text) THEN text[i] ELSE "EOF"

RECURSIVE SkipWs(_, _)
SkipWs(text, i) ==
    IF At(text, i) \in {"NEWLINE", "SPACE"} THEN SkipWs(text, i + 1) ELSE i

\* the character of \uXXXX
HexChar(h) == IF h = <<"0", "0", "e", "9">> THEN "U+00E9" ELSE "?"

\* the string that follows an opening quote: escapes are undone, a raw
\* control character is refused
RECURSIVE scanstring(_, _, _)
scanstring(text, i, acc) ==
    LET c == At(text, i) IN
    IF c = "QUOTE" THEN [ok |-> TRUE, v |-> Str(acc), next |-> i + 1]
    ELSE IF c \in {"EOF", "NEWLINE"} THEN Invalid
    ELSE IF c # "BACKSLASH" THEN scanstring(text, i + 1, Append(acc, c))
    ELSE LET esc == At(text, i + 1) IN
         IF esc = "u"
         THEN IF i + 5 > Len(text) THEN Invalid
              ELSE scanstring(text, i + 6,
                              Append(acc, HexChar(SubSeq(text, i + 2, i + 5))))
         ELSE IF esc = "QUOTE"
         THEN scanstring(text, i + 2, Append(acc, "QUOTE"))
         ELSE IF esc = "BACKSLASH"
         THEN scanstring(text, i + 2, Append(acc, "BACKSLASH"))
         ELSE IF esc = "n"
         THEN scanstring(text, i + 2, Append(acc, "NEWLINE"))
         ELSE Invalid

RECURSIVE ParseValue(_, _)
RECURSIVE JSONObject(_, _, _)
\* the members of an object from position i on: "key": value, ... }
JSONObject(text, i, items) ==
    IF At(text, i) = "}"
    THEN IF items = <<>>
         THEN [ok |-> TRUE, v |-> Dict(<<>>), next |-> i + 1]
         ELSE Invalid
    ELSE IF At(text, i) # "QUOTE" THEN Invalid
    ELSE LET key == scanstring(text, i + 1, <<>>) IN
         IF ~key.ok THEN Invalid
         ELSE LET c == SkipWs(text, key.next) IN
         IF At(text, c) # ":" THEN Invalid
         ELSE LET val == ParseValue(text, SkipWs(text, c + 1)) IN
         IF ~val.ok THEN Invalid
         ELSE LET e == SkipWs(text, val.next)
                  more == Append(items, [key |-> key.v.v, val |-> val.v])
              IN  IF At(text, e) = "}"
                  THEN [ok |-> TRUE, v |-> Dict(more), next |-> e + 1]
                  ELSE IF At(text, e) # "," THEN Invalid
                  ELSE IF At(text, SkipWs(text, e + 1)) # "QUOTE" THEN Invalid
                  ELSE JSONObject(text, SkipWs(text, e + 1), more)

ParseValue(text, i) ==
    IF At(text, i) = "QUOTE" THEN scanstring(text, i + 1, <<>>)
    ELSE IF At(text, i) = "{" THEN JSONObject(text, SkipWs(text, i + 1), <<>>)
    ELSE Invalid

\* json.loads(content): one value and nothing but whitespace after it
json_loads(text) ==
    LET r == ParseValue(text, SkipWs(text, 1)) IN
    IF ~r.ok THEN Invalid
    ELSE IF SkipWs(text, r.next) # Len(text) + 1 THEN Invalid
    ELSE r

\* The scenes whose dialog file is followed: every role, names and dialogs
\* of up to MaxText characters.
SceneInputs ==
    [character : [role : DOMAIN Role, name : Texts, backstory : {<<"n">>},
                  physical_description : {<<"QUOTE", "n">>},
                  personality : {<<>>}],
     dialog : Texts]

InitDialog ==
    /\ InitPipeline
    /\ ~args.images /\ ~args.motion /\ ~args.static_vid /\ ~args.voiceover
    /\ ~apiKey
    /\ job = NoJob
    /\ \E scene \in SceneInputs :
          dialog = [pc |-> "scene", scene |-> scene, text |-> <<>>,
                    parsed |-> Invalid]

\* await f.write(json.dumps(dialog_dict, indent=2))
DialogWrite ==
    /\ dialog.pc = "scene"
    /\ dialog' = [dialog EXCEPT !.pc = "written",
                                !.text = json_dumps(dialog_dict(dialog.scene))]

\* content = file.read(); json.loads(content)
DialogRead ==
    /\ dialog.pc = "written"
    /\ dialog' = [dialog EXCEPT !.pc = "read",
                                !.parsed = json_loads(dialog.text)]

NextDialog ==
    /\ \/ DialogWrite
       \/ DialogRead
    /\ UNCHANGED <<job, characters, visual_style, speaker,
                   previously_seen_characters, seenLoop, args, apiKey, amPc,
                   gsPc, pipeVars, story, amTts, unitVars, now>>

\* ------------------------------------------------------------ specification
Next(e) ==
    \/ AmStart
    \/ \E ok \in BOOLEAN : generate_script(ok)
    \/ \E roster \in e.rosters, ok \in BOOLEAN : extract_characters(roster, ok)
    \/ \E ok \in BOOLEAN : enhance_script(ok)
    \/ \E n \in 0..e.maxK, ok \in BOOLEAN : extract_keyframes(n, ok)
    \/ \E style \in e.styles, ok \in BOOLEAN :
          determine_visual_style(style, ok)
    \/ JoinInitial
    \/ \E k \in KF, c \in 0..e.maxS, sp \in [SC -> e.speakers],
             names \in e.present, ok \in BOOLEAN :
          generate_keyframe_scenes(k, c, sp, names, ok)
    \/ \E k \in KF : SeenAdd(k)
    \/ JoinScenes
    \/ \E response \in OptimizerResponses(Len(Flat), e), ok \in BOOLEAN :
          optimize_leonardo_prompts(response, ok)
    \/ \E i \in 1..MaxFlat, ok \in BOOLEAN : generate_voiceover(i, ok)
    \/ JoinVoiceovers
    \/ AmPost
    \/ \E ok \in BOOLEAN : generate_voiceover_async(ok)
    \/ \E k \in KF : \E j \in 0..Len(WriteOrder(k)) : PkWrite(k, j)
    \/ \E k \in KF, resp \in SubmitAnswers : ImageSubmit(k, resp)
    \/ \E k \in KF : ImagePoll(k, e)
    \/ \E k \in KF, s \in SC, resp \in e.motion :
          MotionSubmit(k, s, resp, e)
    \/ \E k \in KF, s \in SC : MotionPoll(k, s, e)
    \/ \E k \in KF, s \in SC, render \in e.renders : StaticOnly(k, s, render)
    \/ \E k \in KF : PkJoinVideos(k)
    \/ AmJoin

\* The whole pipeline with its fan-out over keyframes and scenes.  Every job
\* answers its first status fetch with a terminal status or an error, images
\* carry their id, motion jobs are accepted and ffmpeg succeeds.
\* What the chat completions answer where a run does not look at it: one
\* roster, scenes spoken by its character and showing it, one style.
PlainCast ==
    [rosters |-> {{"hero"}}, speakers |-> {"hero"}, present |-> {<<"hero">>},
     styles |-> {"RENDER_3D"}, disorder |-> FALSE, preamble |-> FALSE]

PipelineEnv ==
    [h |-> 0, maxK |-> MaxKeyframes, maxS |-> MaxScenes, ids |-> {TRUE},
     motion |-> {"ok"}, renders |-> {"ok"}, blank |-> FALSE] @@ PlainCast

Spec == Init /\ [][Next(PipelineEnv)]_vars

\* One keyframe with one scene, against every behaviour of the remote
\* services: jobs may stay pending up to LongHorizon, images may lack an id,
\* ffmpeg may fail.
UnitEnv ==
    [h |-> LongHorizon, maxK |-> 1, maxS |-> 1, ids |-> BOOLEAN,
     motion |-> SubmitAnswers, renders |-> RenderAnswers, blank |-> TRUE]
       @@ PlainCast

SpecWait == Init /\ [][Next(UnitEnv) \/ Tick]_vars

\* One remote job against a stub of the service.
SpecJob == InitJob /\ [][NextJob]_vars

\* The output files of scenes, by name.
SpecPaths == InitPaths /\ [][NextPaths]_vars

\* One dialog file: written by process_keyframe, read back.
SpecDialog == InitDialog /\ [][NextDialog]_vars

\* Two keyframes of one scene; a job may be pending until ShortHorizon and
\* reports a terminal status (or its fetch fails) from then on.  The event
\* loop and the executor threads run whatever can run: some step that can
\* be taken is eventually taken.
LiveEnv ==
    [h |-> ShortHorizon, maxK |-> MaxKeyframes, maxS |-> 1, ids |-> {TRUE},
     motion |-> {"ok"}, renders |-> {"ok"}, blank |-> FALSE] @@ PlainCast

\* Keyframes of one scene each, against what the chat completions may answer:
\* a scene spoken by a character that is not in the roster, scenes showing
\* two characters, either of two styles, numbered lines out of order.
StoryEnv ==
    [h |-> 0, maxK |-> MaxKeyframes, maxS |-> 1, ids |-> {TRUE},
     motion |-> {"ok"}, renders |-> {"ok"}, blank |-> FALSE,
     rosters |-> {{"hero", "sage"}}, speakers |-> {"hero", "stranger"},
     present |-> {<<"hero", "sage">>}, styles |-> {"RENDER_3D", "WATERCOLOR"},
     disorder |-> TRUE, preamble |-> TRUE]

SpecStory == Init /\ [][Next(StoryEnv)]_vars

SpecLive ==
    /\ Init
    /\ [][Next(LiveEnv) \/ Tick]_vars
    /\ WF_vars(Next(LiveEnv) \/ Tick)

\* ------------------------------------------------------------------ claims
Scenes == {<<k, s>> \in KF \X SC : k <= nKeyframes /\ s <= nScenes[k]}

HasImage(k, s) == imgResult[k][s] \in {"ok_id", "ok_noid"}

VideoStarted(k, s) ==
    \/ vid[k][s] # "none"
    \/ motionSubmits[k][s] # <<>>
    \/ staticCalls[k][s] # <<>>
    \/ <<"keyframe.mp4", k, s>> \in files

ImageWaiting(k) == imgPhase[k] \in {"poll", "sleep", "check", "outer_sleep"}

VideoWaiting(k, s) == vid[k][s] \in {"poll", "sleep", "check", "outer_sleep"}

\* C1: every wait on a remote image or motion job is bounded: once
\* max_poll_time seconds have passed since the wait began, the next look at
\* the clock (at most one polling sleep later) ends the wait, so no unit is
\* found still waiting more than max_poll_time + PollSleep seconds after its
\* start_time.
C1_WaitIsBounded ==
    \A k \in KF :
       /\ ImageWaiting(k) => now - imgStart[k] <= max_poll_time + PollSleep
       /\ \A s \in SC :
             VideoWaiting(k, s) =>
                now - vidStart[k][s] <= max_poll_time + PollSleep

\* C2 (as stated): a scene's image generation reaches the exhausted (null)
\* outcome only after three failed attempts.
C2_ExhaustedAfterThree ==
    \A k \in KF, s \in SC : imgResult[k][s] = "null" => attempts[k][s] = 3

\* C2 (amended): generate_image_for_keyframe makes at most max_retries = 2
\* attempts for a scene; it returns the null result only after max_retries
\* failed attempts, never while an attempt remains, and an attempt whose image
\* was downloaded is the last one and its image is what is returned (the
\* result holds the path exactly when the image file was written).
C2_ExhaustedAfterMaxRetries ==
    \A k \in KF, s \in SC :
       /\ attempts[k][s] <= max_retries
       /\ imgResult[k][s] = "null" => attempts[k][s] = max_retries
       /\ HasImage(k, s) => attempts[k][s] >= 1
       /\ HasImage(k, s) <=> ImagePath(k, s) \in files

\* attempt 1 of a scene failed and attempt 2 produced the image
C2_SecondAttemptSucceeds ==
    \E k \in KF, s \in SC :
       /\ HasImage(k, s)
       /\ attempts[k][s] = 2
       /\ ImagePath(k, s) \in files

\* C3: for every scene generate_motion is called at most once; when the
\* submit is rejected (no job id, or the call raises) the static renderer has
\* been invoked exactly once, with the path of that same scene's image, and
\* the scene's video task has ended without a second submit.
C3_MotionSubmittedOnce ==
    \A k \in KF, s \in SC :
       /\ Len(motionSubmits[k][s]) <= 1
       /\ Len(staticCalls[k][s]) <= 1
       /\ motionSubmits[k][s] \in {<<"None">>, <<"raise">>} =>
             /\ staticCalls[k][s] = <<ImagePath(k, s)>>
             /\ vid[k][s] \in {"static_ok", "static_fail"}

\* a rejected submit, its static fallback done and the keyframe's videos joined
C3_RejectedThenStatic ==
    \E k \in KF, s \in SC :
       /\ motionSubmits[k][s] = <<"None">>
       /\ staticCalls[k][s] = <<ImagePath(k, s)>>
       /\ pkPc[k] = "done"

\* C4: motion generation falls back to the static renderer exactly once on
\* every failure of the motion path (submit rejected, job FAILED or DELETED,
\* status fetch fails, video download fails, wait longer than max_poll_time),
\* and not at all when the motion video was saved: an ended video task that
\* submitted motion either saved the motion video with no static call or made
\* exactly one static call, and no motion wait outlasts max_poll_time by more
\* than one polling sleep.
C4_FallbackOnEveryMotionFailure ==
    \A k \in KF, s \in SC :
       /\ (motionSubmits[k][s] # <<>> /\ VideoEnded(vid[k][s])) =>
             IF vid[k][s] = "motion"
             THEN staticCalls[k][s] = <<>> /\ <<"keyframe.mp4", k, s>> \in files
             ELSE staticCalls[k][s] = <<ImagePath(k, s)>>
       /\ (motionSubmits[k][s] # <<>> /\ ~VideoEnded(vid[k][s])) =>
             /\ staticCalls[k][s] = <<>>
             /\ now - vidStart[k][s] <= max_poll_time + PollSleep

\* C5: a scene whose image could not be generated (null result, reached only
\* after its own max_retries attempts) gets no image file and no video work;
\* the failure does not end its keyframe's processing or the run, its
\* voiceover file (written before the image work) is kept, and once the
\* keyframe is processed every other scene of the keyframe has its own image
\* outcome and, where it has an image and video is enabled, an ended video
\* task; once the run is done every keyframe of the story was processed.
C5_FailedImageIsContained ==
    \A k \in KF, s \in SC :
       imgResult[k][s] = "null" =>
          /\ ~VideoStarted(k, s)
          /\ ImagePath(k, s) \notin files
          /\ attempts[k][s] = max_retries
          /\ pkPc[k] \in {"images", "videos", "done"}
          /\ amPc \in {"process", "done"}
          /\ args.voiceover => <<"voiceover.mp3", k, s>> \in files
          /\ pkPc[k] = "done" =>
                \A s2 \in 1..nScenes[k] :
                   /\ imgResult[k][s2] # "pending"
                   /\ (HasImage(k, s2) /\ generate_video) =>
                         vid[k][s2] \in {"motion", "static_ok", "static_fail"}
          /\ amPc = "done" =>
                \A k2 \in 1..Len(story) : pkPc[k2] \in {"done", "error"}

\* the run is done, scene (k, s) has no image and no video, a later scene of
\* the same keyframe has its image and its video, and the failed scene's
\* voiceover is on disk
C5_SiblingCompleted ==
    \E k \in KF, s \in SC, s2 \in SC :
       /\ s < s2
       /\ imgResult[k][s] = "null"
       /\ HasImage(k, s2)
       /\ <<"keyframe.mp4", k, s2>> \in files
       /\ <<"voiceover.mp3", k, s>> \in files
       /\ amPc = "done"

\* C6: a text-to-speech failure for a scene is confined to that scene: the
\* run goes on (generate_story does not raise, async_main does not crash).
C6_VoiceoverFailureIsContained ==
    ((\E i \in 1..MaxFlat : gsTts[i] = "failed") \/ amTts.failed) =>
       (gsPc # "raised" /\ amPc # "crashed")

\* C7: generate_story returns exactly one entry per keyframe, in keyframe
\* order.
C7_OneEntryPerKeyframe ==
    gsPc = "returned" =>
       /\ Len(story) = nKeyframes
       /\ \A i \in 1..Len(story) : story[i].kf = i

\* C8: video work (a motion submit, a static render, a video file) exists for
\* a scene only if that scene has a generated image on disk, and only after
\* the image generation of its keyframe has finished for every scene.
C8_VideoOnlyWithImage ==
    \A k \in KF, s \in SC :
       VideoStarted(k, s) =>
          /\ HasImage(k, s)
          /\ ImagePath(k, s) \in files
          /\ pkPc[k] \in {"videos", "done"}
          /\ \A s2 \in 1..nScenes[k] : imgResult[k][s2] # "pending"

\* motion was submitted for a scene while a sibling without image has no video
C8_VideoBesideFailedImage ==
    \E k \in KF, s \in SC, s2 \in SC :
       /\ motionSubmits[k][s] # <<>>
       /\ HasImage(k, s)
       /\ imgResult[k][s2] = "null"
       /\ ~VideoStarted(k, s2)

\* C9: when image generation is enabled, every scene of the story has its
\* optimized prompt assigned, and generate_story has returned, before the
\* first image attempt of any scene is made.
C9_PromptsBeforeImages ==
    (\E k \in KF, s \in SC : attempts[k][s] > 0) =>
       /\ gsPc = "returned"
       /\ \A sc \in Scenes : leonardo_prompt[sc[1]][sc[2]] # None

\* an image attempt was made in a story of two keyframes with two scenes each
C9_ImagesOfFourScenes ==
    /\ Cardinality(Scenes) = 4
    /\ \E k \in KF, s \in SC : attempts[k][s] > 0

\* C10: the stages of generate_story run in order: characters only after the
\* script is done, the enhancement only after the characters, the keyframe
\* extraction and the visual style only after the enhancement, every
\* keyframe's scene task only after both of these, and the prompt optimization
\* and the voiceovers only after every scene task.
C10_StageOrder ==
    /\ task["characters"] # "idle" => task["script"] = "done"
    /\ task["enhance"] # "idle" => task["characters"] = "done"
    /\ task["keyframes"] # "idle" => task["enhance"] = "done"
    /\ task["style"] # "idle" => task["enhance"] = "done"
    /\ \A k \in KF :
          sceneTask[k] # "idle" =>
             task["keyframes"] = "done" /\ task["style"] = "done"
    /\ (gsPc \in {"optimize", "voiceover", "returned"}
          \/ \E i \in 1..MaxFlat : gsTts[i] # "idle"
          \/ \E k \in KF, s \in SC : leonardo_prompt[k][s] # None) =>
             \A k \in 1..nKeyframes : sceneTask[k] = "done"

\* two scene tasks are running, one stage after the other having been done
C10_ScenesRunning ==
    /\ nKeyframes = 2
    /\ \A k \in 1..2 : sceneTask[k] = "running"
    /\ \A x \in Stages : task[x] = "done"

JobReportedFailed ==
    /\ job.pc \in {"handle", "done"}
    /\ job.polled # "-"
    /\ job.in.last.code = "200"
    /\ job.in.last.status \in {"FAILED", "DELETED"}

\* C11: when the status source answers a non-terminal status k times and then
\* COMPLETE, the poller returns the COMPLETE payload after exactly k + 1
\* fetches and exactly k sleeps; until it returns it has fetched at most k
\* times and slept once after each of these fetches.
C11_FetchesAndSleeps ==
    job.pc \notin {"none", "submit", "check"} =>
       /\ job.polled # "-" =>
             /\ job.fetches = job.in.pending + 1
             /\ job.sleeps = job.in.pending
       /\ (job.polled # "-" /\ job.in.last.code = "200"
             /\ job.in.last.status = "COMPLETE") => job.polled = "data"
       /\ job.polled = "-" =>
             /\ job.fetches <= job.in.pending
             /\ job.sleeps \in {job.fetches - 1, job.fetches}

\* PENDING twice, then COMPLETE: the payload after 3 fetches and 2 sleeps
C11_TwoPendingThenComplete ==
    /\ job.pc = "done"
    /\ job.in.pending = 2
    /\ job.polled = "data"
    /\ job.fetches = 3
    /\ job.sleeps = 2

\* C12: when the polled job reports FAILED or DELETED the poller returns its
\* failure value (None) and raises nothing; the caller then takes its own
\* failure path (the attempt fails, the motion path falls back to static) and
\* stores no asset.
C12_FailedIsReturned ==
    JobReportedFailed =>
       /\ job.polled = "None"
       /\ job.pc = "done" => (job.out = JobFailure(job.in.kind)
                                 /\ job.written = "none")

\* a motion job that was pending once and then DELETED: the static fallback
C12_DeletedMotionJob ==
    /\ JobReportedFailed
    /\ job.pc = "done"
    /\ job.in.kind = "motion"
    /\ job.in.last.status = "DELETED"
    /\ job.in.pending = 1
    /\ job.out = "static"

\* C13: what the caller receives after a job reported FAILED or DELETED
\* differs from what it receives when the wait exceeded max_poll_time.
C13_TimeoutDistinctFromFailed ==
    (JobReportedFailed /\ job.pc = "done") =>
       job.out # TimeoutOutcome(job.in.kind)

C20_OnlyNonEmptyBodyStored ==
    job.pc = "done" =>
       /\ job.written # "none" <=> job.downloaded = "200"
       /\ job.out \in {"ok_id", "ok_noid", "motion"} <=> job.downloaded = "200"

AttemptRunning(k) == imgPhase[k] # "idle" /\ imgScene[k] \in SC

HasSuffix(prompt) ==
    \E i \in 1..Len(prompt) : prompt[i] = QualitySuffix

\* C14: attempt 1 of a scene's image generation is given the scene's
\* effective prompt unchanged, without the quality suffix; every later
\* attempt is given the effective prompt followed by the suffix exactly once,
\* whatever the number of the attempt.
C14_SuffixOnRetriesOnly ==
    \A k \in KF :
       AttemptRunning(k) =>
          LET d == EffectivePrompt(k, imgScene[k]) IN
          /\ ~HasSuffix(d)
          /\ imgAttempt[k] = 1 => imgPrompt[k] = d
          /\ imgAttempt[k] > 1 => imgPrompt[k] = d \o <<QualitySuffix>>

\* attempt 2 of a scene is waiting for its job with the suffixed prompt
C14_RetryWithSuffix ==
    \E k \in KF :
       /\ AttemptRunning(k)
       /\ imgAttempt[k] = 2
       /\ imgPhase[k] = "poll"
       /\ HasSuffix(imgPrompt[k])

\* C16: the prompt of a scene's first image attempt is leonardo_prompt when
\* that is neither missing nor the empty string, and the description
\* otherwise; it is one of the two, never both.
C16_EffectivePrompt ==
    \A k \in KF :
       (AttemptRunning(k) /\ imgAttempt[k] = 1) =>
          LET lp == leonardo_prompt[k][imgScene[k]] IN
          /\ imgPrompt[k] \in {lp, Description(k, imgScene[k])}
          /\ imgPrompt[k] = lp <=> lp \notin {<<>>, << <<0, 0>> >>}

\* the optimizer gave the scene the empty prompt: the description is used
C16_EmptyPromptFallsBack ==
    \E k \in KF :
       /\ AttemptRunning(k)
       /\ imgAttempt[k] = 1
       /\ leonardo_prompt[k][imgScene[k]] = << <<0, 0>> >>
       /\ imgPrompt[k] = Description(k, imgScene[k])

\* C15: a failed static render (non-zero exit of ffmpeg or an exception) ends
\* the scene's video work: the renderer was invoked once and is not invoked
\* again, no motion job is submitted after it, no video file exists for the
\* scene, and neither the keyframe's processing nor the run is ended by an
\* exception.
C15_FailedRenderIsTerminal ==
    \A k \in KF, s \in SC :
       /\ Len(staticCalls[k][s]) <= 1
       /\ staticCalls[k][s] # <<>> =>
             vid[k][s] \in {"static_ok", "static_fail"}
       /\ vid[k][s] = "static_fail" =>
             /\ Len(staticCalls[k][s]) = 1
             /\ Len(motionSubmits[k][s]) <= 1
             /\ <<"keyframe.mp4", k, s>> \notin files
             /\ pkPc[k] \in {"videos", "done"}
             /\ amPc \in {"process", "done"}

\* the run is done after the fallback render of an accepted motion job failed
C15_FallbackRenderFailed ==
    \E k \in KF, s \in SC :
       /\ vid[k][s] = "static_fail"
       /\ motionSubmits[k][s] = <<"id">>
       /\ pkPc[k] = "done"
       /\ amPc = "done"

StageOrder == <<"script", "characters", "enhance", "keyframes", "style">>

\* C17: when one of the five stages fails, no later stage is ever started (no
\* stage that follows it in the sequence, no scene task, no prompt
\* optimization, no voiceover), no keyframe is processed, no file is written,
\* async_main never gets a story, and the process does not exit with code 0.
C17_FatalStageAbortsRun ==
    \A i \in 1..5 :
       task[StageOrder[i]] = "failed" =>
          /\ \A j \in (i + 1)..5 :
                (i = 4 /\ j = 5) \/ task[StageOrder[j]] = "idle"
          /\ \A k \in KF : sceneTask[k] = "idle" /\ pkPc[k] = "idle"
          /\ \A k \in KF, s \in SC : leonardo_prompt[k][s] = None
          /\ \A x \in 1..MaxFlat : gsTts[x] = "idle"
          /\ gsPc \notin {"scenes", "optimize", "voiceover", "returned"}
          /\ story = <<>>
          /\ files = {}
          /\ amPc \in {"invoke", "crashed"}
          /\ ExitCode # 0

\* the visual style failed after the keyframes were extracted: exit code 1
C17_StyleFailed ==
    /\ task["style"] = "failed"
    /\ task["keyframes"] = "done"
    /\ nKeyframes = 1
    /\ ExitCode = 1

\* C18: when images are requested and LEONARDO_API_KEY is missing, the run
\* ends before any stage is started and the process exits with a non-zero
\* code.
C18_MissingKeyExitsNonZero ==
    (args.images /\ ~apiKey /\ amPc # "start") =>
       /\ \A x \in Stages : task[x] = "idle"
       /\ gsPc = "idle"
       /\ files = {}
       /\ ExitCode > 0

\* the poll of the job is under way or has returned
Polling ==
    /\ job.pc # "none"
    /\ (job.pc \in {"fetch", "sleep", "handle"} \/ job.polled # "-")

TransportFailed ==
    /\ Polling
    /\ job.fetches = job.in.pending + 1
    /\ job.in.last.code \in {"non200", "raise"}

\* C21: a status fetch that fails at transport level (a non-200 response, a
\* raised error) ends the poll of that job at once: the poller returns None
\* (or the error leaves it), the job's status is not fetched again and nothing
\* sleeps; the caller takes its failure path, downloads and stores nothing.
C21_TransportFailureEndsPoll ==
    /\ Polling => job.fetches <= job.in.pending + 1
    /\ TransportFailed =>
          /\ job.pc \in {"handle", "done"}
          /\ job.sleeps = job.in.pending
          /\ job.polled = (IF job.in.last.code = "raise" THEN "raise"
                           ELSE "None")
          /\ job.pc = "done" =>
                /\ job.out = JobFailure(job.in.kind)
                /\ job.downloaded = "-"
                /\ job.written = "none"

\* an image job answered PENDING once and then a non-200 response
C21_SecondFetchNon200 ==
    /\ TransportFailed
    /\ job.pc = "done"
    /\ job.in.kind = "image"
    /\ job.in.pending = 1
    /\ job.in.last.code = "non200"
    /\ job.fetches = 2
    /\ job.out = "fail"

TerminalStatus == {"COMPLETE", "FAILED", "DELETED"}

\* C22: once a status fetch answered COMPLETE, FAILED or DELETED the job's
\* status is never fetched again (the poller has returned and does not
\* sleep); as long as the fetches answered any other status, a missing one
\* included, the poller has not returned: it sleeps once after each of these
\* fetches and fetches again.
C22_TerminalIsAbsorbing ==
    Polling =>
       /\ (job.fetches = job.in.pending + 1 /\ job.in.last.code = "200"
             /\ job.in.last.status \in TerminalStatus) =>
                /\ job.pc \in {"handle", "done"}
                /\ job.polled \in {"data", "None"}
       /\ job.fetches > job.in.pending + 1 =>
             job.in.last.status \notin TerminalStatus
       /\ job.fetches <= job.in.pending =>
             /\ job.polled = "-"
             /\ job.pc = "sleep" => job.sleeps = job.fetches - 1
             /\ job.pc = "fetch" => job.sleeps = job.fetches
             /\ job.pc \in {"sleep", "fetch"}

\* a payload without status twice, then FAILED: three fetches, no more
C22_MissingStatusThenFailed ==
    /\ job.pc = "done"
    /\ job.in.other = MissingStatus
    /\ job.in.pending = 2
    /\ job.in.last.status = "FAILED"
    /\ job.fetches = 3
    /\ job.sleeps = 2

\* C23: an image file is written only by an attempt whose job was accepted,
\* was observed COMPLETE with a generated image that has a url, and whose
\* download of that url was answered 200; an attempt that fails at any
\* earlier point (submit, wait, status, payload, download) writes nothing.
C23_ImageOnlyAfterCompleteAndDownload ==
    (job.pc # "none" /\ job.in.kind = "image") =>
       /\ job.written # "none" =>
             /\ job.submitted = "id"
             /\ job.polled = "data"
             /\ job.in.last.code = "200"
             /\ job.in.last.status = "COMPLETE"
             /\ job.in.last.images = "url"
             /\ job.downloaded \in {"200", "200_empty"}
             /\ job.out \in {"ok_id", "ok_noid"}
       /\ (job.pc = "done" /\ job.out = "fail") => job.written = "none"

\* an image job, pending once, then COMPLETE with a url: the image is written
C23_ImageSaved ==
    /\ job.pc = "done"
    /\ job.in.kind = "image"
    /\ job.in.pending = 1
    /\ job.polled = "data"
    /\ job.downloaded = "200"
    /\ job.written = "bytes"

\* what belongs to the unit of keyframe k
UnitOf(k) ==
    <<pkPc[k], imgScene[k], imgAttempt[k], imgPhase[k], imgResult[k],
      attempts[k], vid[k], motionSubmits[k], staticCalls[k]>>

UnitEnds(k) == pkPc[k] # "error" /\ pkPc'[k] = "error"

\* C24: an exception raised inside the unit of one keyframe stays inside it:
\* the step in which the unit ends with its exception changes nothing of any
\* other unit and removes no file; from then on async_main is still waiting
\* for the units or has returned from the join normally (it never crashes),
\* and it returns only when every unit has ended.
C24_UnitExceptionIsCaptured ==
    /\ [](\A k \in KF :
            pkPc[k] = "error" =>
               /\ amPc \in {"process", "done"}
               /\ ExitCode # 1
               /\ amPc = "done" =>
                     \A k2 \in 1..Len(story) : pkPc[k2] \in {"done", "error"})
    /\ [][\A k \in KF :
            UnitEnds(k) =>
               /\ \A k2 \in KF \ {k} : UnitOf(k2)' = UnitOf(k2)
               /\ files \subseteq files'
               /\ amPc' = amPc]_vars

\* the first keyframe's unit ended with an exception, the second one got its
\* image and its video, and the join has returned
C24_SiblingFinished ==
    /\ pkPc[1] = "error"
    /\ pkPc[2] = "done"
    /\ ImagePath(2, 1) \in files
    /\ <<"keyframe.mp4", 2, 1>> \in files
    /\ amPc = "done"

RunEnded == amPc \in {"returned", "done", "crashed"}

UnitAtRest(k) ==
    /\ pkPc[k] \in {"idle", "done", "error"}
    /\ imgPhase[k] = "idle"
    /\ \A s \in SC : VideoEnded(vid[k][s])

\* C25: when every job reports a terminal status from some time on, every
\* run ends (async_main returns, or an exception leaves it), and in the state
\* in which it has ended no unit is running: every process_keyframe has
\* returned, no image attempt and no video task is under way, and every scene
\* of a processed keyframe has its image outcome.
C25_RunReturnsAfterUnits ==
    /\ <>RunEnded
    /\ [](RunEnded => \A k \in KF : UnitAtRest(k))
    /\ [](amPc = "done" =>
            \A k \in 1..Len(story) :
               /\ pkPc[k] \in {"done", "error"}
               /\ (pkPc[k] = "done" /\ args.images) =>
                     \A s \in 1..nScenes[k] : imgResult[k][s] # "pending")

\* the run returned after two units that both waited for a pending job
C25_ReturnedAfterWaiting ==
    /\ amPc = "done"
    /\ now >= PollSleep
    /\ \A k \in KF : pkPc[k] = "done" /\ <<"keyframe.mp4", k, 1>> \in files

\* C30: the files of two different (keyframe, scene) pairs never have the
\* same path, whatever their kinds and whether or not the images directory
\* is the output directory; and the name written for a scene is the name of
\* its kind for its pair of indices.
C30_DistinctScenesDistinctPaths ==
    \A f \in files, g \in files :
       /\ f.name = FileName(f.kind, f.k, f.s)
       /\ <<f.k, f.s>> # <<g.k, g.s>> =>
             \A shared \in BOOLEAN :
                FilePath(f.kind, f.k, f.s, shared)
                   # FilePath(g.kind, g.k, g.s, shared)

\* the images of scene 11 of keyframe 1 and of scene 1 of keyframe 11
C30_ElevenAndOne ==
    /\ [kind |-> "image", k |-> 1, s |-> 11,
         name |-> <<"keyframe_", "1", "_", "1", "1", ".jpg">>] \in files
    /\ [kind |-> "image", k |-> 11, s |-> 1,
         name |-> <<"keyframe_", "1", "1", "_", "1", ".jpg">>] \in files

\* the scenes of the entries generate_story returned
Returned ==
    {<<k, c>> \in KF \X SC :
        gsPc = "returned" /\ k <= Len(story) /\ c <= nScenes[k]}

\* C26: the roster is there before any scene task is started, and every scene
\* generate_story returns is spoken by a character of the roster.
C26_SpeakersInRoster ==
    /\ (\E k \in KF : sceneTask[k] # "idle") => task["characters"] = "done"
    /\ \A sc \in Returned : speaker[sc[1]][sc[2]] \in characters

InFlight(k) == sceneTask[k] \in {"running", "update"}

Mutated(k) == seenLoop[k].i > 0

\* C27: two scene tasks that are in flight at the same time have never both
\* added to previously_seen_characters.
C27_NoConcurrentMutation ==
    \A k1 \in KF, k2 \in KF :
       (k1 # k2 /\ InFlight(k1) /\ InFlight(k2)) =>
          ~(Mutated(k1) /\ Mutated(k2))

\* C28: no numbered line of the optimizer's response is folded into the
\* prompt of a scene: a response with an index gap or a line out of order is
\* refused, so every piece of every assigned prompt is the text of a line
\* that was taken without its number.
C28_NoFoldedLine ==
    \A k \in KF, c \in SC :
       \A i \in 1..Len(leonardo_prompt[k][c]) :
          leonardo_prompt[k][c][i][1] <= 0

\* C29: the style is there exactly when determine_visual_style has returned
\* and does not change afterwards; every entry of the story carries it, and
\* every image job was submitted with the style id of that style.
C29_OneStylePerRun ==
    /\ [](/\ visual_style # "-" <=> task["style"] = "done"
          /\ \A i \in 1..Len(story) : story[i].style = visual_style
          /\ story # <<>> => visual_style \in {"RENDER_3D", "WATERCOLOR"}
          /\ styleIds \subseteq {IF visual_style = "RENDER_3D" THEN "debdf72a"
                                 ELSE "1db308ce"}
          /\ (\E k \in KF, c \in SC : imgResult[k][c] # "pending") =>
                styleIds # {}
          /\ (\A k \in KF, c \in SC : attempts[k][c] = 0) => styleIds = {})
    /\ [][visual_style # "-" => visual_style' = visual_style]_vars

\* two entries with the style WATERCOLOR, an image job submitted for each
C29_TwoEntriesOneStyle ==
    /\ Len(story) = 2
    /\ story[1].style = "WATERCOLOR"
    /\ story[2].style = "WATERCOLOR"
    /\ attempts[1][1] > 0
    /\ attempts[2][1] > 0
    /\ styleIds = {"1db308ce"}

\* the image job of scene (k, s) has been sent to the image service: the
\* scene has its result, or it is the scene awaited and its attempt is past
\* the submit or is a retry
JobStarted(k, s) ==
    \/ imgResult[k][s] # "pending"
    \/ /\ imgScene[k] = s
       /\ IF imgPhase[k] # "submit" THEN TRUE ELSE imgAttempt[k] > 1

\* C31: the image units of the scenes of one keyframe are launched together:
\* by the time the unit of one scene has been waited on to its result, the
\* image job of every scene of the keyframe has been started; and
\* process_keyframe goes past its image step only with every result in.
C31_SceneImagesLaunchedTogether ==
    \A k \in KF :
       /\ (\E s \in 1..nScenes[k] : imgResult[k][s] # "pending") =>
             \A s \in 1..nScenes[k] : JobStarted(k, s)
       /\ pkPc[k] \in {"videos", "done"} /\ args.images =>
             \A s \in 1..nScenes[k] : imgResult[k][s] # "pending"

\* the value of key in a parsed dict, Str(<<"?">>) when it has none
Member(d, key) ==
    IF \E j \in 1..Len(d.v) : d.v[j].key = <<key>>
    THEN d.v[CHOOSE j \in 1..Len(d.v) : d.v[j].key = <<key>>].val
    ELSE Str(<<"?">>)

\* C32: the dialog file of a scene, read back, is the object that was
\* written: the text parses, the parsed value equals dialog_dict, and its
\* character has the role, name, backstory, physical_description and
\* personality of the scene's character, its dialog the scene's dialog.
C32_DialogRoundTrip ==
    dialog.pc = "read" =>
       /\ dialog.parsed.ok
       /\ dialog.parsed.v.t = "dict"
       /\ LET c == Member(dialog.parsed.v, "character")
              sc == dialog.scene.character
          IN  /\ c.t = "dict"
              /\ RoleOfValue(Member(c, "role").v) = sc.role
              /\ Member(c, "name") = Str(sc.name)
              /\ Member(c, "backstory") = Str(sc.backstory)
              /\ Member(c, "physical_description") =
                    Str(sc.physical_description)
              /\ Member(c, "personality") = Str(sc.personality)
       /\ Member(dialog.parsed.v, "dialog") = Str(dialog.scene.dialog)
       /\ dialog.parsed.v = dialog_dict(dialog.scene)

\* a fairy whose name holds a backslash before the letter n and whose dialog
\* holds a quote and a line break has been written and read back
C32_EscapesReadBack ==
    /\ dialog.pc = "read"
    /\ dialog.scene.character.role = "FAE"
    /\ dialog.scene.character.name = <<"BACKSLASH", "n">>
    /\ dialog.scene.dialog = <<"QUOTE", "NEWLINE">>
    /\ dialog.parsed.ok

\* the position of scene (k, s) among the scenes flattened keyframe-major
FlatIndex(k, s) == CHOOSE i \in 1..Len(Flat) : Flat[i] = <<k, s>>

\* C33: once the prompts are assigned, the scene at flattened position i has
\* the text of the segment numbered i of the optimizer's response (the
\* segment i of every response of the runs has the text i) and nothing else.
C33_PromptIsSegmentOfItsNumber ==
    \A k \in KF, s \in SC :
       leonardo_prompt[k][s] # None =>
          leonardo_prompt[k][s] = << <<0, FlatIndex(k, s)>> >>

\* C34: generate_motion is called for a scene only when the image job of
\* that scene was COMPLETE with an image that carries an id: a scene whose
\* image was saved without an id has no motion submit.
C34_MotionOnlyWithImageId ==
    \A k \in KF, s \in SC :
       motionSubmits[k][s] # <<>> => imgResult[k][s] = "ok_id"

\* the audio items of the scenes of keyframe k, in scene order
AudioOfKeyframe(k) == [s \in 1..nScenes[k] |-> <<k, s>>]

\* C35: with voiceover on, the audio group of every entry of the story
\* generate_story returned holds the audio of the scenes of the entry's
\* keyframe, one item per scene in scene order; and a process_keyframe that
\* has finished has written the voiceover files of exactly its scenes.
C35_AudioGroupMatchesKeyframe ==
    /\ \A i \in 1..Len(story) :
          story[i].audio.on =>
             story[i].audio.items = AudioOfKeyframe(story[i].kf)
    /\ \A k \in KF :
          args.voiceover /\ pkPc[k] = "done" =>
             \A s \in SC :
                <<"voiceover.mp3", k, s>> \in files <=> s <= nScenes[k]

\* the calls of generate_speech_from_text made so far for the scene at
\* flattened position i: by the generate_voiceover task of generate_story,
\* by generate_voiceover_async of async_main
TtsCalls(i) ==
    (IF gsTts[i] # "idle" THEN 1 ELSE 0) + (IF amTts.next > i THEN 1 ELSE 0)

\* C36: text to speech is called at most once for a scene, never without
\* --voiceover, and once for every scene of the story by the time a run with
\* --voiceover is done.
C36_OneSynthesisPerScene ==
    \A i \in 1..MaxFlat :
       /\ TtsCalls(i) <= 1
       /\ ~args.voiceover => TtsCalls(i) = 0
       /\ args.voiceover /\ amPc = "done" /\ i <= Len(StoryFlat) =>
             TtsCalls(i) = 1

\* a step in which the unit of keyframe k sends an image job
SubmitsJob(k) == Len(imgJobs'[k]) > Len(imgJobs[k])

\* C37: within the image unit of a scene no attempt sends more than one job,
\* every status fetch of an attempt asks for the job that same attempt sent
\* (never for the job of an earlier, failed attempt), an attempt holds at
\* most its own job, and a job is sent only for a scene that has no image
\* result yet.
C37_OneJobPerAttempt ==
    /\ [](\A k \in KF :
            /\ \A i, j \in 1..Len(imgJobs[k]) :
                  i # j => imgJobs[k][i] # imgJobs[k][j]
            /\ \A p \in imgPolls[k] :
                  /\ p[2] \in 1..Len(imgJobs[k])
                  /\ imgJobs[k][p[2]] = p[1]
            /\ imgJob[k] # 0 =>
                  /\ imgJob[k] = Len(imgJobs[k])
                  /\ imgJobs[k][imgJob[k]] = imgAttempt[k])
    /\ [][\A k \in KF :
            SubmitsJob(k) =>
               /\ imgScene[k] \in SC
               /\ imgResult[k][imgScene[k]] = "pending"
               /\ Len(imgJobs'[k]) = Len(imgJobs[k]) + 1]_vars

\* the first attempt of a scene sent job 1, fetched its status and failed;
\* the second attempt sent job 2 and has fetched the status of job 2
C37_SecondAttemptPollsOwnJob ==
    \E k \in KF :
       /\ imgJobs[k] = <<1, 2>>
       /\ imgPolls[k] = {<<1, 1>>, <<2, 2>>}
       /\ imgJob[k] = 2

\* C38: a video task exists for a scene only with --images and one of
\* --motion, --static-vid; with --static-vid alone the motion API is never
\* called, the static renderer is called at most once for a scene, only for
\* a scene with an image, and exactly once for every such scene by the time
\* process_keyframe is done; with neither flag no video task is started.
C38_VideoOnlyWhenRequested ==
    \A k \in KF, s \in SC :
       /\ VideoStarted(k, s) =>
             args.images /\ (args.motion \/ args.static_vid)
       /\ ~args.motion /\ ~args.static_vid =>
             vid[k][s] = "none" /\ ~VideoStarted(k, s)
       /\ args.static_vid /\ ~args.motion =>
             /\ motionSubmits[k][s] = <<>>
             /\ vid[k][s] \in {"none", "static", "static_ok", "static_fail"}
             /\ Len(staticCalls[k][s]) <= 1
             /\ staticCalls[k][s] # <<>> => HasImage(k, s)
             /\ pkPc[k] = "done" /\ HasImage(k, s) =>
                   staticCalls[k][s] = <<ImagePath(k, s)>>

\* --static-vid alone: the keyframe is done, the scene with an image was
\* rendered once, its sibling without image was not
C38_StaticOnlyRendered ==
    /\ args.static_vid /\ ~args.motion
    /\ pkPc[1] = "done"
    /\ HasImage(1, 1)
    /\ staticCalls[1][1] = <<ImagePath(1, 1)>>
    /\ imgResult[1][2] = "null"
    /\ staticCalls[1][2] = <<>>

====
